---- MODULE Spec2Model ----
(***************************************************************************)
(* A model of ig_media_downloader.downloader.IGDownloader: the progress    *)
(* ledger (_load_progress / _save_progress), the per-item download         *)
(* (_download_post), the work scheduler (_download_posts_parallel) and the *)
(* orchestrators (download_user_media, download_post_from_shortcode,       *)
(* download_posts_from_urls).                                              *)
(*                                                                         *)
(* The Media Source Provider (instaloader) and the filesystem are the      *)
(* environment: every outcome of a provider call, of a directory glob and  *)
(* of a file write is an input drawn from a small set at the step that     *)
(* makes the call.                                                         *)
(***************************************************************************)
EXTENDS Integers, Sequences, FiniteSets, TLC

(***************************************************************************)
(* Bounds of the model.                                                    *)
(***************************************************************************)
\* number of item keys (shortcodes) of the remote catalogue
NumKeys == 4
\* largest worker count requested at construction
MaxRequestedWorkers == 2
\* largest number of files a glob for one shortcode may find
MaxFiles == 1
\* largest --max-posts value tried
MaxPostsArg == 1
\* number of children of a carousel (GraphSidecar) post
SidecarNodes == 2
\* largest number of story items of each kind a stories pass may download
MaxStories == 1

(***************************************************************************)
(* Program constants.                                                      *)
(***************************************************************************)
\* IGDownloader.__init__: self.max_workers = min(max_workers, 8)
MaxWorkersLimit == 8
\* _retry_on_connection_error(..., max_retries: int = 3)
DefaultMaxRetries == 3

(***************************************************************************)
(* The remote catalogue.  Keys are shortcodes; every key is owned by one   *)
(* target account.  The attributes of a post are functions of its key.     *)
(***************************************************************************)
Keys == 1..NumKeys
Targets == {"A", "B"}
NoOne == "none"

\* post.owner_username
Owner(k) == IF k <= 3 THEN "A" ELSE "B"

\* hasattr(post, "product_type") and post.product_type == "clips"
IsReel(k) == k % 2 = 0

\* post.is_video
IsVideo(k) == IsReel(k)

\* post.typename
TypeName(k) ==
    IF IsVideo(k) THEN "GraphVideo"
    ELSE IF k % 3 = 0 THEN "GraphSidecar" ELSE "GraphImage"

RECURSIVE SortedList(_)
\* sorted(list(S)) for a finite set S of integers
SortedList(S) ==
    IF S = {} THEN <<>>
    ELSE LET m == CHOOSE x \in S : \A y \in S : x <= y
         IN  <<m>> \o SortedList(S \ {m})

Range(s) == {s[i] : i \in 1..Len(s)}

\* profile.get_posts(): the posts of a target, in enumeration order
GetPosts(t) == SortedList({k \in Keys : Owner(k) = t})

(***************************************************************************)
(* Errors.  An error value is the name of its class; an OSError carries    *)
(* its errno in the name.                                                  *)
(***************************************************************************)
ConnectionException == "ConnectionException"
ProfileNotExistsException == "ProfileNotExistsException"
PrivateProfileNotFollowedException == "PrivateProfileNotFollowedException"
ENOSPC == "OSError_ENOSPC"
EACCES == "OSError_EACCES"
OtherOSError == "OSError_other"
OtherException == "Exception"

OSErrors == {ENOSPC, EACCES, OtherOSError}
ErrorKinds ==
    {ConnectionException, ProfileNotExistsException,
     PrivateProfileNotFollowedException, ENOSPC, EACCES, OtherOSError,
     OtherException}
OK == "ok"
\* what one call of the provider can do: return, or raise one of the errors
ProviderOutcomes == {OK} \cup ErrorKinds

\* the severity tiers of spec section 3
FatalErrors ==
    {ProfileNotExistsException, PrivateProfileNotFollowedException, ENOSPC, EACCES}
RetryableErrors == {ConnectionException}
RecoverableSkipErrors == {OtherOSError, OtherException}

(***************************************************************************)
(* The persisted ledger file <output_dir>/<username>/.download_progress.json*)
(* A file is missing, unreadable (open/read raises OSError), holds text    *)
(* that is no JSON document, or holds a JSON value.  A JSON value is null, *)
(* a number, a string (a sequence of characters), an array or an object;   *)
(* of an object only the two fields the reader consults are kept, each a   *)
(* JSON value or absent.  Characters are integers above the keys.          *)
(***************************************************************************)
\* number of distinct characters in the strings tried
NumChars == 2
Chars == (NumKeys + 1)..(NumKeys + NumChars)

Missing == [kind |-> "missing"]
Unreadable == [kind |-> "unreadable"]
BadTexts == {"empty", "truncated", "invalid"}
Text(x) == [kind |-> "text", text |-> x]
Json(v) == [kind |-> "json", val |-> v]

Absent == [t |-> "absent"]
JNull == [t |-> "null"]
JNumber == [t |-> "number"]
JString(cs) == [t |-> "string", chars |-> cs]
\* an array of strings; nested is TRUE when it also holds an array or object
JArray(es, nested) == [t |-> "array", elems |-> es, nested |-> nested]
\* a JSON object used as a field value: only its key set matters to set()
JDict(ks) == [t |-> "dict", keys |-> ks]
JObject(p, r) == [t |-> "object", downloaded_posts |-> p, downloaded_reels |-> r]

\* Python's set(x): the set, or TypeError
PySet(v) ==
    CASE v.t = "array"  -> IF v.nested THEN [exc |-> "TypeError", value |-> {}]
                           ELSE [exc |-> "none", value |-> Range(v.elems)]
      [] v.t = "string" -> [exc |-> "none", value |-> Range(v.chars)]
      [] v.t = "dict"   -> [exc |-> "none", value |-> v.keys]
      [] OTHER          -> [exc |-> "TypeError", value |-> {}]

\* data.get(name, []): the field, or an empty list when absent
GetField(fv) == IF fv.t = "absent" THEN JArray(<<>>, FALSE) ELSE fv

\* a reader that consults downloaded_posts alone
LoadBodyPostsOnly(c) ==
    CASE c.kind = "unreadable" -> [exc |-> "OSError", value |-> {}]
      [] c.kind = "text"       -> [exc |-> "JSONDecodeError", value |-> {}]
      [] OTHER ->
           LET data == c.val IN
           IF data.t # "object" THEN [exc |-> "none", value |-> {}]
           ELSE PySet(GetField(data.downloaded_posts))

\* the try block of _load_progress: the value returned or the exception raised
LoadBody(c) ==
    CASE c.kind = "unreadable" -> [exc |-> "OSError", value |-> {}]
      [] c.kind = "text"       -> [exc |-> "JSONDecodeError", value |-> {}]
      [] OTHER ->
           LET data == c.val IN
           IF data.t # "object" THEN [exc |-> "none", value |-> {}]
           ELSE LET p == PySet(GetField(data.downloaded_posts))
                    r == PySet(GetField(data.downloaded_reels))
                IN  IF p.exc # "none" THEN p
                    ELSE IF r.exc # "none" THEN r
                    ELSE [exc |-> "none", value |-> p.value \cup r.value]

\* _load_progress(username): [raised, value]
LoadProgress(c) ==
    IF c.kind = "missing" THEN [raised |-> FALSE, value |-> {}]
    ELSE LET b == LoadBody(c) IN
         IF b.exc = "none" THEN [raised |-> FALSE, value |-> b.value]
         \* except json.JSONDecodeError / (IOError, OSError) / Exception
         ELSE IF b.exc \in {"JSONDecodeError", "OSError", "TypeError"}
              THEN [raised |-> FALSE, value |-> {}]
         ELSE [raised |-> TRUE, value |-> {}]

\* what the filesystem can do to one _save_progress call
SaveOutcomes == {"ok", "fail_open", "fail_write"}

\* a save that leaves the file as it was
SaveProgressKeepsOld(old, posts_set, how) == old

\* _save_progress(username, downloaded_posts): the file afterwards
SaveProgress(old, posts, how) ==
    CASE how = "ok" ->
           Json(JObject(JArray(SortedList(posts), FALSE), JArray(<<>>, FALSE)))
      \* mkdir or open raised: nothing was written
      [] how = "fail_open" -> old
      \* open(.., "w") truncated the file and json.dump raised part-way
      [] OTHER -> Text("truncated")

(***************************************************************************)
(* _retry_on_connection_error                                              *)
(***************************************************************************)
\* wait_time = attempt + 1
WaitTimeFlat(attempt) == 1

WaitTime(attempt) == attempt + 1

RECURSIVE RetryFromShort(_, _, _, _)
\* a loop that gives up one attempt early
RetryFromShort(outs, attempt, max_retries, sleeps) ==
    IF attempt >= max_retries
    THEN [outcome |-> OK, calls |-> attempt, sleeps |-> sleeps]
    ELSE LET o == outs[attempt + 1] IN
         IF o = ConnectionException /\ attempt < max_retries - 2
         THEN RetryFromShort(outs, attempt + 1, max_retries,
                             Append(sleeps, WaitTime(attempt)))
         ELSE [outcome |-> o, calls |-> attempt + 1, sleeps |-> sleeps]

RECURSIVE RetryFrom(_, _, _, _)
\* the for loop from iteration `attempt` on; outs[a + 1] is what the call of
\* iteration a does.  [outcome, calls, sleeps]
RetryFrom(outs, attempt, max_retries, sleeps) ==
    IF attempt >= max_retries
    THEN [outcome |-> OK, calls |-> attempt, sleeps |-> sleeps]
    ELSE LET o == outs[attempt + 1] IN
         IF o = ConnectionException
         THEN IF attempt < max_retries - 1
              THEN RetryFrom(outs, attempt + 1, max_retries,
                             Append(sleeps, WaitTime(attempt)))
              ELSE [outcome |-> o, calls |-> attempt + 1, sleeps |-> sleeps]
         ELSE [outcome |-> o, calls |-> attempt + 1, sleeps |-> sleeps]

RetryOnConnectionError(outs, max_retries) == RetryFrom(outs, 0, max_retries, <<>>)

\* what the successive calls of one wrapped operation can do
CallOutcomes(n) == [1..n -> ProviderOutcomes]

\* what a call under the default retry policy can end with
RetriedCallOutcomes ==
    {RetryOnConnectionError(outs, DefaultMaxRetries).outcome :
        outs \in CallOutcomes(DefaultMaxRetries)}

(***************************************************************************)
(* _download_post                                                          *)
(***************************************************************************)
Tuple(i, v, s) == [images |-> i, videos |-> v, skipped |-> s]
Zero == Tuple(0, 0, 0)
Returns(t) == [kind |-> "return", tuple |-> t, exc |-> "none"]
Raises(e) == [kind |-> "raise", tuple |-> Zero, exc |-> e]
NoOutcome == [kind |-> "none", tuple |-> Zero, exc |-> "none"]

\* the counts of a post that was downloaded
CountDownloaded(k) ==
    IF IsVideo(k) THEN Tuple(0, 1, 0)
    ELSE IF TypeName(k) = "GraphSidecar" THEN Tuple(SidecarNodes, 0, 0)
    ELSE Tuple(1, 0, 0)

\* the except clauses of _download_post, for an error raised in its try block
DownloadPostExcept(e) ==
    IF e = ConnectionException THEN Raises(e)
    ELSE IF e \in OSErrors
         THEN IF e = ENOSPC THEN Raises(e)
              ELSE IF e = EACCES THEN Raises(e)
              ELSE Returns(Zero)
    ELSE Returns(Zero)

(***************************************************************************)
(* _download_posts_parallel: what each path does with an exception that    *)
(* _download_post let through                                              *)
(***************************************************************************)
\* the sequential loop
SeqExcept(e) ==
    IF e \in {ConnectionException, ProfileNotExistsException,
              PrivateProfileNotFollowedException} \cup OSErrors
    THEN "raise"
    ELSE "append_zero"

\* the as_completed loop
PoolExcept(e) ==
    IF e = ConnectionException THEN "cancel_raise"
    ELSE IF e \in OSErrors
         THEN IF e \in {ENOSPC, EACCES} THEN "cancel_raise" ELSE "append_zero"
    ELSE IF e \in {ProfileNotExistsException, PrivateProfileNotFollowedException}
         THEN "cancel_raise"
    ELSE "append_zero"

(***************************************************************************)
(* State                                                                   *)
(***************************************************************************)
VARIABLES
    mode,                   \* which entry point main dispatched to
    max_workers,            \* self.max_workers
    resume,                 \* self.resume
    username,               \* the target of a target-media run
    max_posts,              \* {} for None, {n} for a limit
    include_stories,
    include_reels,
    run_no,                 \* which invocation of the program this is
    previous,               \* what the invocation before reported, if it ran clean
    max_retries,            \* _retry_on_connection_error: its max_retries argument
    call_outcomes,          \* what the successive calls of the wrapped func do
    retried,                \* what _retry_on_connection_error ended with
    argv,                   \* main: the command line
    exit_code,              \* main: the code the process exited with
    error,                  \* _handle_download_error: its error argument
    context,                \* _handle_download_error: its context argument
    handled,                \* _handle_download_error: what the call did
    disk,                   \* per directory and key: files matching *key*
    progress_file,          \* per target: the content of its ledger file
    downloaded_posts,       \* self.downloaded_posts
    stats_lock,             \* 0 when free, else the item whose worker holds it
    dirname_pattern,        \* self.loader.dirname_pattern
    pc,                     \* position of the orchestrator
    loaded,                 \* the set _load_progress returned at run start
    resumed_from_previous,
    errors,
    stories_downloaded,
    reels_downloaded,
    reel_pos,               \* download_reels: index of the next post of get_posts()
    reel_log,               \* download_reels: what happened to each reel so far
    phase_failures,         \* the sub-phases whose failure was logged
    posts,                  \* the list handed to _download_posts_parallel
    target,                 \* per item: the username _download_post is given
    sched,                  \* position of _download_posts_parallel
    sweep_pos,              \* the cancellation sweep: next future to cancel
    fut,                    \* per item: pending, a position in _download_post,
                            \*           finished or cancelled
    outcome,                \* per item: what _download_post returned or raised
    attempts,               \* per item: calls of loader.download_post
    provider_outcome,       \* per item: what the last such call did
    observed,               \* per item: the scheduler has consumed its future
    results,
    caught,                 \* the exception the scheduler is propagating
    raised,                 \* the error that reached the caller of the run
    propagations,           \* times the scheduler raised to its caller
    save_failed,            \* some _save_progress of this run failed
    tries,                  \* per URL: failed attempts of the whole-item retry
    failed_urls,            \* download_posts_from_urls: the failure records
    failed_file,            \* failed_downloads.yaml as _save_failed_urls left it
    stats                   \* the DownloadStats returned, once built

sched_vars ==
    <<posts, target, sched, sweep_pos, fut, outcome, attempts, provider_outcome,
      observed, results, caught, propagations>>
retry_vars == <<max_retries, call_outcomes, retried>>
main_vars == <<argv, exit_code>>
classify_vars == <<error, context, handled>>
config_vars ==
    <<mode, max_workers, resume, username, max_posts, include_stories,
      include_reels, run_no, previous, retry_vars, main_vars, classify_vars>>
ledger_vars == <<progress_file, downloaded_posts, stats_lock, save_failed>>
run_vars ==
    <<pc, loaded, resumed_from_previous, errors, stories_downloaded,
      reels_downloaded, reel_pos, reel_log, phase_failures, raised, stats>>
url_vars == <<tries, failed_urls, failed_file>>
vars ==
    <<config_vars, disk, ledger_vars, dirname_pattern, run_vars, sched_vars,
      url_vars>>

None == "none"

\* no DownloadStats has been built
NoStats == [username |-> NoOne]
\* the process has not exited
NoExit == 0 - 1
\* outside main there is no command line
NoArgv == [username |-> FALSE]
\* outside _handle_download_error there is no error argument
NoError == [class |-> "none"]

\* <output_dir>/failed_downloads.yaml as this run leaves it: not written,
\* _save_failed_urls called and its open or dump raised (logged only), or
\* written with the records
NotWritten == [kind |-> "none", records |-> <<>>]
WriteFailed == [kind |-> "failed", records |-> <<>>]
FailedFile(recs) == [kind |-> "written", records |-> recs]
Items == 1..Len(posts)
Running == {"check", "download", "lock", "save"}

\* IGDownloader.__init__: the effective worker count
ClampWorkers(requested) == IF requested < MaxWorkersLimit THEN requested ELSE MaxWorkersLimit

PostsDir(t) == <<t, "posts">>
ReelsDir(t) == <<t, "reels">>
StoriesDir(t) == <<t, "stories">>


\* What target_dir.glob("*shortcode*") finds.  The output directories are not
\* touched from outside, and the constructor leaves the provider's file name
\* pattern at its default, which is made of the post's date and not of its
\* shortcode, so the answer for a key is the same every time it is asked.
\* A key's entry is Unlisted until the first glob for it draws the number.
Unlisted == 0 - 1
Glob(dir, k) ==
    IF disk[dir][k] = Unlisted THEN 0..MaxFiles ELSE {disk[dir][k]}
Listed(dir, k, n) == [disk EXCEPT ![dir][k] = n]
EmptyListing == [dir \in {"posts", "reels"} |-> [k \in Keys |-> Unlisted]]

(***************************************************************************)
(* _download_post(post, username), one step per action.  The item          *)
(* posts[i] is processed by one thread: a pool worker, or the caller's     *)
(* thread on the sequential path.                                          *)
(***************************************************************************)
Finish(i, o) ==
    /\ outcome' = [outcome EXCEPT ![i] = o]
    /\ fut' = [fut EXCEPT ![i] = "finished"]

\* Check without the ledger test of the resume branch
CheckIgnoresLedger(i) ==
    /\ i \in Items
    /\ fut[i] = "check"
    /\ \E existing_files \in Glob("posts", posts[i]) :
         /\ disk' = Listed("posts", posts[i], existing_files)
         /\ IF existing_files > 0
            THEN /\ Finish(i, Returns(Tuple(0, 0, existing_files)))
                 /\ UNCHANGED dirname_pattern
            ELSE /\ fut' = [fut EXCEPT ![i] = "download"]
                 /\ dirname_pattern' = PostsDir(target[i])
                 /\ UNCHANGED outcome
    /\ UNCHANGED <<config_vars, url_vars, ledger_vars, run_vars, posts, target, sched,
                   sweep_pos, attempts, provider_outcome, observed, results,
                   caught, propagations>>

\* the ledger check, the glob for existing files and the assignment of
\* loader.dirname_pattern
Check(i) ==
    /\ i \in Items
    /\ fut[i] = "check"
    /\ IF resume /\ posts[i] \in downloaded_posts
       THEN /\ Finish(i, Returns(Tuple(0, 0, 1)))
            /\ UNCHANGED <<dirname_pattern, disk>>
       ELSE \E existing_files \in Glob("posts", posts[i]) :
              /\ disk' = Listed("posts", posts[i], existing_files)
              /\ IF existing_files > 0
                 THEN /\ Finish(i, Returns(Tuple(0, 0, existing_files)))
                      /\ UNCHANGED dirname_pattern
                 ELSE /\ fut' = [fut EXCEPT ![i] = "download"]
                      /\ dirname_pattern' = PostsDir(target[i])
                      /\ UNCHANGED outcome
    /\ UNCHANGED <<config_vars, url_vars, ledger_vars, run_vars, posts, target, sched,
                   sweep_pos, attempts, provider_outcome, observed, results,
                   caught, propagations>>

\* a _download_post that enters the lock block after a failed download too
DownloadAddsOnFailure(i) ==
    /\ i \in Items
    /\ fut[i] = "download"
    /\ \E o \in ProviderOutcomes :
         /\ attempts' = [attempts EXCEPT ![i] = @ + 1]
         /\ provider_outcome' = [provider_outcome EXCEPT ![i] = o]
         /\ IF resume
            THEN /\ outcome' = [outcome EXCEPT ![i] =
                                  IF o = OK THEN Returns(CountDownloaded(posts[i]))
                                  ELSE DownloadPostExcept(o)]
                 /\ fut' = [fut EXCEPT ![i] = "lock"]
            ELSE Finish(i, IF o = OK THEN Returns(CountDownloaded(posts[i]))
                           ELSE DownloadPostExcept(o))
    /\ UNCHANGED <<config_vars, url_vars, disk, ledger_vars, dirname_pattern, run_vars, posts,
                   target, sched, sweep_pos, observed, results, caught,
                   propagations>>

\* self.loader.download_post(post, target=username) and the counting or the
\* except clause that follows it
Download(i) ==
    /\ i \in Items
    /\ fut[i] = "download"
    /\ \E o \in ProviderOutcomes :
         /\ attempts' = [attempts EXCEPT ![i] = @ + 1]
         /\ provider_outcome' = [provider_outcome EXCEPT ![i] = o]
         /\ IF o = OK
            THEN IF resume
                 THEN /\ outcome' = [outcome EXCEPT ![i] = Returns(CountDownloaded(posts[i]))]
                      /\ fut' = [fut EXCEPT ![i] = "lock"]
                 ELSE Finish(i, Returns(CountDownloaded(posts[i])))
            ELSE Finish(i, DownloadPostExcept(o))
    /\ UNCHANGED <<config_vars, url_vars, disk, ledger_vars, dirname_pattern, run_vars, posts,
                   target, sched, sweep_pos, observed, results, caught,
                   propagations>>

\* with self.stats_lock: self.downloaded_posts.add(post.shortcode)
LockAdd(i) ==
    /\ i \in Items
    /\ fut[i] = "lock"
    /\ stats_lock = 0
    /\ stats_lock' = i
    /\ downloaded_posts' = downloaded_posts \cup {posts[i]}
    /\ fut' = [fut EXCEPT ![i] = "save"]
    /\ UNCHANGED <<config_vars, url_vars, disk, progress_file, save_failed, dirname_pattern,
                   run_vars, posts, target, sched, sweep_pos, outcome, attempts,
                   provider_outcome, observed, results, caught, propagations>>

\* the lock released and the return, without the save
SaveUnlockSkipsSave(i) ==
    /\ i \in Items
    /\ fut[i] = "save"
    /\ stats_lock' = 0
    /\ fut' = [fut EXCEPT ![i] = "finished"]
    /\ UNCHANGED <<config_vars, url_vars, disk, progress_file, save_failed,
                   downloaded_posts, dirname_pattern, run_vars, posts, target,
                   sched, sweep_pos, outcome, attempts, provider_outcome,
                   observed, results, caught, propagations>>

\* a save of the set as it was loaded plus the worker's own key
SaveUnlockStale(i) ==
    /\ i \in Items
    /\ fut[i] = "save"
    /\ \E how \in SaveOutcomes :
         /\ progress_file' =
               [progress_file EXCEPT ![target[i]] =
                  SaveProgress(@, loaded \cup {posts[i]}, how)]
         /\ save_failed' = (save_failed \/ how # "ok")
    /\ stats_lock' = 0
    /\ fut' = [fut EXCEPT ![i] = "finished"]
    /\ UNCHANGED <<config_vars, url_vars, disk, downloaded_posts, dirname_pattern, run_vars,
                   posts, target, sched, sweep_pos, outcome, attempts,
                   provider_outcome, observed, results, caught, propagations>>

\* a _save_progress whose failure escapes into _download_post, where the
\* except OSError clause answers it
SaveUnlockRaisesOnFailure(i) ==
    /\ i \in Items
    /\ fut[i] = "save"
    /\ \E how \in SaveOutcomes :
         /\ progress_file' =
               [progress_file EXCEPT ![target[i]] = SaveProgress(@, downloaded_posts, how)]
         /\ save_failed' = (save_failed \/ how # "ok")
         /\ outcome' = [outcome EXCEPT ![i] =
                          IF how = "ok" THEN @ ELSE DownloadPostExcept(EACCES)]
    /\ stats_lock' = 0
    /\ fut' = [fut EXCEPT ![i] = "finished"]
    /\ UNCHANGED <<config_vars, url_vars, disk, downloaded_posts, dirname_pattern, run_vars,
                   posts, target, sched, sweep_pos, attempts,
                   provider_outcome, observed, results, caught, propagations>>

\* a return from the lock block that leaves the lock held
SaveUnlockKeepsLock(i) ==
    /\ i \in Items
    /\ fut[i] = "save"
    /\ \E how \in SaveOutcomes :
         /\ progress_file' =
               [progress_file EXCEPT ![target[i]] = SaveProgress(@, downloaded_posts, how)]
         /\ save_failed' = (save_failed \/ how # "ok")
    /\ stats_lock' = stats_lock
    /\ fut' = [fut EXCEPT ![i] = "finished"]
    /\ UNCHANGED <<config_vars, url_vars, disk, downloaded_posts, dirname_pattern, run_vars,
                   posts, target, sched, sweep_pos, outcome, attempts,
                   provider_outcome, observed, results, caught, propagations>>

\* self._save_progress(username, self.downloaded_posts), the release of the
\* lock and the return
SaveUnlock(i) ==
    /\ i \in Items
    /\ fut[i] = "save"
    /\ \E how \in SaveOutcomes :
         /\ progress_file' =
               [progress_file EXCEPT ![target[i]] = SaveProgress(@, downloaded_posts, how)]
         /\ save_failed' = (save_failed \/ how # "ok")
    /\ stats_lock' = 0
    /\ fut' = [fut EXCEPT ![i] = "finished"]
    /\ UNCHANGED <<config_vars, url_vars, disk, downloaded_posts, dirname_pattern, run_vars,
                   posts, target, sched, sweep_pos, outcome, attempts,
                   provider_outcome, observed, results, caught, propagations>>

(***************************************************************************)
(* _download_posts_parallel(posts, username)                               *)
(***************************************************************************)
\* the state of the scheduler at its call
SchedCall(ps, t) ==
    /\ posts' = ps
    /\ target' = [i \in 1..Len(ps) |-> t]
    /\ sched' = IF max_workers = 1 THEN "seq" ELSE "collect"
    /\ sweep_pos' = 1
    /\ fut' = [i \in 1..Len(ps) |-> "pending"]
    /\ outcome' = [i \in 1..Len(ps) |-> NoOutcome]
    /\ attempts' = [i \in 1..Len(ps) |-> 0]
    /\ provider_outcome' = [i \in 1..Len(ps) |-> None]
    /\ observed' = [i \in 1..Len(ps) |-> FALSE]
    /\ results' = <<>>
    /\ caught' = None
    /\ propagations' = 0

\* a sequential loop that takes any pending item, not the next one
SeqBeginAnyOrder(i) ==
    /\ sched = "seq"
    /\ i \in Items
    /\ fut[i] = "pending"
    /\ fut' = [fut EXCEPT ![i] = "check"]
    /\ UNCHANGED <<config_vars, url_vars, disk, ledger_vars, dirname_pattern, run_vars, posts,
                   target, sched, sweep_pos, outcome, attempts, provider_outcome,
                   observed, results, caught, propagations>>

\* sequential path: for post in posts: result = self._download_post(...)
SeqBegin(i) ==
    /\ sched = "seq"
    /\ i \in Items
    /\ i = Len(results) + 1
    /\ fut[i] = "pending"
    /\ fut' = [fut EXCEPT ![i] = "check"]
    /\ UNCHANGED <<config_vars, url_vars, disk, ledger_vars, dirname_pattern, run_vars, posts,
                   target, sched, sweep_pos, outcome, attempts, provider_outcome,
                   observed, results, caught, propagations>>

\* sequential path: results.append(result), or the except clause
SeqCollect(i) ==
    /\ sched = "seq"
    /\ i \in Items
    /\ fut[i] = "finished"
    /\ ~observed[i]
    /\ observed' = [observed EXCEPT ![i] = TRUE]
    /\ IF outcome[i].kind = "return"
       THEN /\ results' = Append(results, outcome[i].tuple)
            /\ UNCHANGED <<sched, caught, propagations>>
       ELSE IF SeqExcept(outcome[i].exc) = "raise"
       THEN /\ sched' = "raised"
            /\ caught' = outcome[i].exc
            /\ propagations' = propagations + 1
            /\ UNCHANGED results
       ELSE /\ results' = Append(results, Zero)
            /\ UNCHANGED <<sched, caught, propagations>>
    /\ UNCHANGED <<config_vars, url_vars, disk, ledger_vars, dirname_pattern, run_vars, posts,
                   target, sweep_pos, fut, outcome, attempts, provider_outcome>>

\* sequential path: return results
SeqReturn ==
    /\ sched = "seq"
    /\ Len(results) = Len(posts)
    /\ sched' = "returned"
    /\ UNCHANGED <<config_vars, url_vars, disk, ledger_vars, dirname_pattern, run_vars, posts,
                   target, sweep_pos, fut, outcome, attempts, provider_outcome,
                   observed, results, caught, propagations>>

\* pool: a worker thread takes the next work item off the queue.  The
\* queue is FIFO, a cancelled item is dropped, and the workers keep taking
\* items until the queue is empty, also after shutdown(wait=True).
WorkerBegin(i) ==
    /\ sched \in {"collect", "sweep", "join"}
    /\ i \in Items
    /\ fut[i] = "pending"
    /\ \A j \in 1..(i - 1) : fut[j] # "pending"
    /\ Cardinality({j \in Items : fut[j] \in Running}) < max_workers
    /\ fut' = [fut EXCEPT ![i] = "check"]
    /\ UNCHANGED <<config_vars, url_vars, disk, ledger_vars, dirname_pattern, run_vars, posts,
                   target, sched, sweep_pos, outcome, attempts, provider_outcome,
                   observed, results, caught, propagations>>

\* an as_completed loop that records a zero tuple for every item
CollectAppendsZero(i) ==
    /\ sched = "collect"
    /\ i \in Items
    /\ fut[i] = "finished"
    /\ ~observed[i]
    /\ observed' = [observed EXCEPT ![i] = TRUE]
    /\ IF outcome[i].kind = "raise" /\ PoolExcept(outcome[i].exc) = "cancel_raise"
       THEN /\ sched' = "sweep"
            /\ caught' = outcome[i].exc
            /\ sweep_pos' = 1
            /\ UNCHANGED results
       ELSE /\ results' = Append(results, Zero)
            /\ UNCHANGED <<sched, caught, sweep_pos>>
    /\ UNCHANGED <<config_vars, url_vars, disk, ledger_vars, dirname_pattern, run_vars, posts,
                   target, fut, outcome, attempts, provider_outcome, propagations>>

\* pool: one iteration of for future in as_completed(future_to_post)
Collect(i) ==
    /\ sched = "collect"
    /\ i \in Items
    /\ fut[i] = "finished"
    /\ ~observed[i]
    /\ observed' = [observed EXCEPT ![i] = TRUE]
    /\ IF outcome[i].kind = "return"
       THEN /\ results' = Append(results, outcome[i].tuple)
            /\ UNCHANGED <<sched, caught, sweep_pos>>
       ELSE IF PoolExcept(outcome[i].exc) = "cancel_raise"
       THEN /\ sched' = "sweep"
            /\ caught' = outcome[i].exc
            /\ sweep_pos' = 1
            /\ UNCHANGED results
       ELSE /\ results' = Append(results, Zero)
            /\ UNCHANGED <<sched, caught, sweep_pos>>
    /\ UNCHANGED <<config_vars, url_vars, disk, ledger_vars, dirname_pattern, run_vars, posts,
                   target, fut, outcome, attempts, provider_outcome, propagations>>

\* a sweep that walks the futures without cancelling any
CancelSkips ==
    /\ sched = "sweep"
    /\ sweep_pos \in Items
    /\ sweep_pos' = sweep_pos + 1
    /\ sched' = IF sweep_pos = Len(posts) THEN "join" ELSE "sweep"
    /\ UNCHANGED <<config_vars, url_vars, disk, ledger_vars, dirname_pattern, run_vars, posts,
                   target, fut, outcome, attempts, provider_outcome, observed,
                   results, caught, propagations>>

\* pool: one f.cancel() of for f in future_to_post: f.cancel(); after the
\* last one, raise enters the executor's __exit__ (shutdown(wait=True))
Cancel ==
    /\ sched = "sweep"
    /\ sweep_pos \in Items
    /\ fut' = [fut EXCEPT ![sweep_pos] = IF @ = "pending" THEN "cancelled" ELSE @]
    /\ sweep_pos' = sweep_pos + 1
    /\ sched' = IF sweep_pos = Len(posts) THEN "join" ELSE "sweep"
    /\ UNCHANGED <<config_vars, url_vars, disk, ledger_vars, dirname_pattern, run_vars, posts,
                   target, outcome, attempts, provider_outcome, observed, results,
                   caught, propagations>>

\* an executor exit that does not wait for its worker threads
JoinWithoutWait ==
    /\ sched = "join"
    /\ sched' = "raised"
    /\ propagations' = propagations + 1
    /\ UNCHANGED <<config_vars, url_vars, disk, ledger_vars, dirname_pattern, run_vars, posts,
                   target, sweep_pos, fut, outcome, attempts, provider_outcome,
                   observed, results, caught>>

\* pool: shutdown(wait=True) returns once every worker thread has ended,
\* and the exception leaves _download_posts_parallel
Join ==
    /\ sched = "join"
    /\ \A i \in Items : fut[i] \in {"finished", "cancelled"}
    /\ sched' = "raised"
    /\ propagations' = propagations + 1
    /\ UNCHANGED <<config_vars, url_vars, disk, ledger_vars, dirname_pattern, run_vars, posts,
                   target, sweep_pos, fut, outcome, attempts, provider_outcome,
                   observed, results, caught>>

\* pool: as_completed is exhausted, the with block ends, return results
PoolReturn ==
    /\ sched = "collect"
    /\ \A i \in Items : observed[i]
    /\ sched' = "returned"
    /\ UNCHANGED <<config_vars, url_vars, disk, ledger_vars, dirname_pattern, run_vars, posts,
                   target, sweep_pos, fut, outcome, attempts, provider_outcome,
                   observed, results, caught, propagations>>

NextSched ==
    \/ \E i \in Items : Check(i)
    \/ \E i \in Items : Download(i)
    \/ \E i \in Items : LockAdd(i)
    \/ \E i \in Items : SaveUnlock(i)
    \/ \E i \in Items : SeqBegin(i)
    \/ \E i \in Items : SeqCollect(i)
    \/ \E i \in Items : WorkerBegin(i)
    \/ \E i \in Items : Collect(i)
    \/ SeqReturn
    \/ Cancel
    \/ Join
    \/ PoolReturn

(***************************************************************************)
(* The scheduler called on its own: the posts of one target, any           *)
(* in-memory ledger over them, any worker count.                           *)
(***************************************************************************)
WrittenFile(S) == Json(JObject(JArray(SortedList(S), FALSE), JArray(<<>>, FALSE)))

InitSched ==
    /\ mode = "sched"
    \* the small worker counts and the largest the constructor allows
    /\ max_workers \in
         {ClampWorkers(r) : r \in (1..MaxRequestedWorkers) \cup {MaxWorkersLimit}}
    /\ resume \in BOOLEAN
    /\ username \in Targets
    /\ max_posts = {}
    /\ include_stories = FALSE
    /\ include_reels = FALSE
    /\ downloaded_posts \in SUBSET Range(GetPosts(username))
    /\ ~resume => downloaded_posts = {}
    /\ progress_file =
         [t \in Targets |->
            IF t = username /\ downloaded_posts # {}
            THEN WrittenFile(downloaded_posts) ELSE Missing]
    /\ run_no = 1
    /\ previous = None
    /\ disk = EmptyListing
    /\ stats_lock = 0
    /\ save_failed = FALSE
    /\ dirname_pattern = None
    /\ pc = "schedule"
    /\ loaded = downloaded_posts
    /\ resumed_from_previous = FALSE
    /\ errors = 0
    /\ stories_downloaded = 0
    /\ reels_downloaded = 0
    /\ reel_pos = 1
    /\ reel_log = <<>>
    /\ phase_failures = {}
    /\ raised = None
    /\ stats = NoStats
    /\ posts = GetPosts(username)
    /\ target = [i \in 1..Len(posts) |-> username]
    /\ sched = IF max_workers = 1 THEN "seq" ELSE "collect"
    /\ sweep_pos = 1
    /\ fut = [i \in 1..Len(posts) |-> "pending"]
    /\ outcome = [i \in 1..Len(posts) |-> NoOutcome]
    /\ attempts = [i \in 1..Len(posts) |-> 0]
    /\ provider_outcome = [i \in 1..Len(posts) |-> None]
    /\ observed = [i \in 1..Len(posts) |-> FALSE]
    /\ results = <<>>
    /\ caught = None
    /\ propagations = 0
    /\ tries = <<>>
    /\ failed_urls = <<>>
    /\ failed_file = NotWritten
    /\ argv = NoArgv
    /\ exit_code = NoExit
    /\ error = NoError
    /\ context = ""
    /\ handled = None
    /\ max_retries = DefaultMaxRetries
    /\ call_outcomes = <<>>
    /\ retried = None

SpecSched == InitSched /\ [][NextSched]_vars

(***************************************************************************)
(* download_stories and download_reels: the except clauses around the      *)
(* whole method, for an error raised outside the per-item try block        *)
(***************************************************************************)
StoriesExcept(e) ==
    IF e \in {ProfileNotExistsException, ConnectionException,
              PrivateProfileNotFollowedException}
    THEN "raise"
    ELSE IF e \in OSErrors
         THEN IF e \in {ENOSPC, EACCES} THEN "raise" ELSE "return_zero"
    ELSE "return_zero"

ReelsExcept(e) ==
    IF e \in {ProfileNotExistsException, ConnectionException,
              PrivateProfileNotFollowedException}
    THEN "raise"
    ELSE IF e \in OSErrors
         THEN IF e \in {ENOSPC, EACCES} THEN "raise" ELSE "return_zero"
    ELSE "return_zero"

\* download_reels: the except clauses inside the loop, around one reel
ReelItemExcept(e) ==
    IF e = ConnectionException THEN "raise"
    ELSE IF e \in OSErrors
         THEN IF e \in {ENOSPC, EACCES} THEN "raise" ELSE "continue"
    ELSE "continue"

\* _create_output_directory: the error it raises for a failing mkdir
CreateDirError(e) ==
    IF e = EACCES THEN "PermissionError"
    ELSE IF e = ENOSPC THEN OtherOSError       \* OSError(msg), errno not set
    ELSE e

(***************************************************************************)
(* download_user_media                                                     *)
(***************************************************************************)
RECURSIVE CollectPosts(_, _, _, _, _)
\* the loop that fills posts_to_download from profile.get_posts()
CollectPosts(ps, i, acc, limit, skip_reels) ==
    IF i > Len(ps) THEN acc
    ELSE IF limit # {} /\ (\E n \in limit : Len(acc) >= n) THEN acc
    ELSE IF skip_reels /\ IsReel(ps[i])
         THEN CollectPosts(ps, i + 1, acc, limit, skip_reels)
    ELSE CollectPosts(ps, i + 1, Append(acc, ps[i]), limit, skip_reels)

\* a collection loop that never skips a reel
PostsToDownloadKeepsReels(t, limit, skip_reels) ==
    CollectPosts(GetPosts(t), 1, <<>>, limit, FALSE)

PostsToDownload(t, limit, skip_reels) ==
    CollectPosts(GetPosts(t), 1, <<>>, limit, skip_reels)

RECURSIVE SumTuples(_, _)
\* for images, videos, skipped in results: the three running sums
SumTuples(rs, i) ==
    IF i > Len(rs) THEN Zero
    ELSE LET rest == SumTuples(rs, i + 1) IN
         Tuple(rs[i].images + rest.images, rs[i].videos + rest.videos,
               rs[i].skipped + rest.skipped)

\* DownloadStats.total_files
TotalFiles(st) ==
    st.downloaded_images + st.downloaded_videos + st.stories_downloaded
      + st.reels_downloaded

\* user_dir = self._create_output_directory(username)
CreateDir ==
    /\ pc = "create_dir"
    /\ \E e \in {OK} \cup OSErrors :
         IF e = OK
         THEN pc' = "load" /\ UNCHANGED raised
         ELSE pc' = "raised" /\ raised' = CreateDirError(e)
    /\ UNCHANGED <<config_vars, url_vars, disk, ledger_vars, dirname_pattern, loaded,
                   resumed_from_previous, errors, stories_downloaded,
                   reels_downloaded, reel_pos, reel_log, phase_failures, stats, sched_vars>>

\* a load that reads the ledger file whether or not resume is set
LoadIgnoresResume ==
    /\ pc = "load"
    /\ pc' = "resolve"
    /\ downloaded_posts' = LoadProgress(progress_file[username]).value
    /\ loaded' = downloaded_posts'
    /\ resumed_from_previous' = (Cardinality(downloaded_posts') > 0)
    /\ UNCHANGED <<config_vars, url_vars, disk, progress_file, stats_lock, save_failed,
                   dirname_pattern, errors, stories_downloaded, reels_downloaded,
                   reel_pos, reel_log, phase_failures, raised, stats, sched_vars>>

\* if self.resume: self.downloaded_posts = self._load_progress(username)
Load ==
    /\ pc = "load"
    /\ pc' = "resolve"
    /\ IF resume
       THEN /\ downloaded_posts' = LoadProgress(progress_file[username]).value
            /\ loaded' = downloaded_posts'
            /\ resumed_from_previous' = (Cardinality(downloaded_posts') > 0)
       ELSE /\ resumed_from_previous' = FALSE
            /\ UNCHANGED <<downloaded_posts, loaded>>
    /\ UNCHANGED <<config_vars, url_vars, disk, progress_file, stats_lock, save_failed,
                   dirname_pattern, errors, stories_downloaded, reels_downloaded,
                   reel_pos, reel_log, phase_failures, raised, stats, sched_vars>>

\* profile = self._retry_on_connection_error(Profile.from_username, ...)
Resolve ==
    /\ pc = "resolve"
    /\ \E r \in RetriedCallOutcomes :
         IF r = OK
         THEN pc' = "stories" /\ UNCHANGED raised
         ELSE pc' = "raised" /\ raised' = r
    /\ UNCHANGED <<config_vars, url_vars, disk, ledger_vars, dirname_pattern, loaded,
                   resumed_from_previous, errors, stories_downloaded,
                   reels_downloaded, reel_pos, reel_log, phase_failures, stats, sched_vars>>

\* step 1: if include_stories: try download_stories except Exception: errors += 1
Stories ==
    /\ pc = "stories"
    /\ pc' = "reels"
    /\ IF include_stories
       THEN \E e \in ProviderOutcomes, images \in 0..MaxStories :
            \E videos \in 0..(MaxStories - images) :
              IF e = OK
              THEN /\ stories_downloaded' = images + videos
                   /\ dirname_pattern' = IF images + videos > 0
                                          THEN StoriesDir(username) ELSE dirname_pattern
                   /\ UNCHANGED <<errors, phase_failures>>
              \* download_stories logged e and re-raised it or returned 0, 0
              ELSE /\ errors' = IF StoriesExcept(e) = "raise" THEN errors + 1 ELSE errors
                   /\ phase_failures' = phase_failures \cup {"stories"}
                   /\ UNCHANGED <<stories_downloaded, dirname_pattern>>
       ELSE UNCHANGED <<stories_downloaded, dirname_pattern, errors, phase_failures>>
    /\ UNCHANGED <<config_vars, url_vars, disk, ledger_vars, loaded, resumed_from_previous,
                   reels_downloaded, reel_pos, reel_log, raised, stats, sched_vars>>

\* step 2: if include_reels: download_reels up to its loop (mkdir, profile)
ReelsBegin ==
    /\ pc = "reels"
    /\ IF include_reels
       THEN \E e \in ProviderOutcomes :
              IF e = OK
              THEN pc' = "reels_loop" /\ UNCHANGED <<errors, phase_failures>>
              \* download_reels logged e and re-raised it or returned 0, 0
              ELSE /\ pc' = "enumerate"
                   /\ errors' = IF ReelsExcept(e) = "raise" THEN errors + 1 ELSE errors
                   /\ phase_failures' = phase_failures \cup {"reels"}
       ELSE pc' = "enumerate" /\ UNCHANGED <<errors, phase_failures>>
    /\ UNCHANGED <<config_vars, url_vars, disk, ledger_vars, dirname_pattern, loaded,
                   resumed_from_previous, stories_downloaded, reels_downloaded,
                   reel_pos, reel_log, raised, stats, sched_vars>>

ReelLog(k, what) == Append(reel_log, [key |-> k, what |-> what])

\* download_reels: one iteration of for post in profile.get_posts()
ReelsItem ==
    /\ pc = "reels_loop"
    /\ reel_pos <= Len(GetPosts(username))
    /\ LET k == GetPosts(username)[reel_pos] IN
       IF ~IsReel(k)
       THEN /\ reel_pos' = reel_pos + 1
            /\ UNCHANGED <<pc, errors, reel_log, downloaded_posts, progress_file,
                           save_failed, dirname_pattern, disk>>
       ELSE IF resume /\ k \in downloaded_posts
       THEN /\ reel_pos' = reel_pos + 1
            /\ reel_log' = ReelLog(k, "skip_ledger")
            /\ UNCHANGED <<pc, errors, downloaded_posts, progress_file,
                           save_failed, dirname_pattern, disk>>
       ELSE \E existing_files \in Glob("reels", k) :
            /\ disk' = Listed("reels", k, existing_files)
            /\ IF existing_files > 0
               THEN /\ reel_pos' = reel_pos + 1
                    /\ reel_log' = ReelLog(k, "skip_existing")
                    /\ UNCHANGED <<pc, errors, downloaded_posts, progress_file,
                                   save_failed, dirname_pattern>>
               ELSE /\ dirname_pattern' = ReelsDir(username)
                    /\ \E o \in ProviderOutcomes :
                         IF o = OK
                         THEN /\ reel_pos' = reel_pos + 1
                              /\ reel_log' = ReelLog(k, "downloaded")
                              /\ UNCHANGED <<pc, errors>>
                              /\ IF resume
                                 THEN \E how \in SaveOutcomes :
                                        /\ downloaded_posts' = downloaded_posts \cup {k}
                                        /\ progress_file' =
                                              [progress_file EXCEPT ![username] =
                                                 SaveProgress(@, downloaded_posts', how)]
                                        /\ save_failed' = (save_failed \/ how # "ok")
                                 ELSE UNCHANGED <<downloaded_posts, progress_file, save_failed>>
                         ELSE IF ReelItemExcept(o) = "raise"
                         \* re-raised by the method, caught by download_user_media
                         THEN /\ pc' = "enumerate"
                              /\ errors' = IF ReelsExcept(o) = "raise"
                                            THEN errors + 1 ELSE errors
                              /\ reel_log' = ReelLog(k, "raised")
                              /\ UNCHANGED <<reel_pos, downloaded_posts, progress_file,
                                             save_failed>>
                         ELSE /\ reel_pos' = reel_pos + 1
                              /\ reel_log' = ReelLog(k, "failed")
                              /\ UNCHANGED <<pc, errors, downloaded_posts, progress_file,
                                             save_failed>>
    \* the method failed when the loop was left by an error
    /\ phase_failures' = IF pc' = "enumerate"
                         THEN phase_failures \cup {"reels"} ELSE phase_failures
    /\ UNCHANGED <<config_vars, url_vars, stats_lock, loaded, resumed_from_previous,
                   stories_downloaded, reels_downloaded, raised, stats, sched_vars>>

\* download_reels returns (0, videos_count); _, reels_videos = ...
ReelsEnd ==
    /\ pc = "reels_loop"
    /\ reel_pos > Len(GetPosts(username))
    /\ pc' = "enumerate"
    /\ reels_downloaded' =
         Cardinality({j \in 1..Len(reel_log) : reel_log[j].what = "downloaded"})
    /\ UNCHANGED <<config_vars, url_vars, disk, ledger_vars, dirname_pattern, loaded,
                   resumed_from_previous, errors, stories_downloaded, reel_pos,
                   reel_log, phase_failures, raised, stats, sched_vars>>

\* step 3: collect posts_to_download and call _download_posts_parallel
Enumerate ==
    /\ pc = "enumerate"
    /\ \E e \in ProviderOutcomes :
         IF e = OK
         THEN LET ps == PostsToDownload(username, max_posts, include_reels) IN
              IF Len(ps) > 0
              THEN pc' = "schedule" /\ SchedCall(ps, username) /\ UNCHANGED raised
              ELSE pc' = "finalize" /\ UNCHANGED <<raised, sched_vars>>
         \* profile.get_posts() raised: every outer except clause re-raises
         ELSE pc' = "raised" /\ raised' = e /\ UNCHANGED sched_vars
    /\ UNCHANGED <<config_vars, url_vars, disk, ledger_vars, dirname_pattern, loaded,
                   resumed_from_previous, errors, stories_downloaded,
                   reels_downloaded, reel_pos, reel_log, phase_failures, stats>>

\* an orchestrator that reports what was downloaded before the error
PropagateWithStats ==
    /\ pc = "schedule"
    /\ sched = "raised"
    /\ pc' = "raised"
    /\ raised' = caught
    /\ stats' = [username |-> username,
                 total_posts |-> Len(posts),
                 downloaded_images |-> SumTuples(results, 1).images,
                 downloaded_videos |-> SumTuples(results, 1).videos,
                 skipped_files |-> SumTuples(results, 1).skipped,
                 errors |-> errors + 1,
                 stories_downloaded |-> stories_downloaded,
                 reels_downloaded |-> reels_downloaded,
                 resumed_from_previous |-> resumed_from_previous]
    /\ UNCHANGED <<config_vars, url_vars, disk, ledger_vars, dirname_pattern, loaded,
                   resumed_from_previous, errors, stories_downloaded,
                   reels_downloaded, reel_pos, reel_log, phase_failures, sched_vars>>

\* the scheduler raised: every outer except clause re-raises
Propagate ==
    /\ pc = "schedule"
    /\ sched = "raised"
    /\ pc' = "raised"
    /\ raised' = caught
    /\ UNCHANGED <<config_vars, url_vars, disk, ledger_vars, dirname_pattern, loaded,
                   resumed_from_previous, errors, stories_downloaded,
                   reels_downloaded, reel_pos, reel_log, phase_failures, stats, sched_vars>>

\* an orchestrator that builds its DownloadStats while the scheduler is
\* still at work
FinalizeBeforeDrain ==
    /\ \/ pc = "finalize"
       \/ pc = "schedule" /\ sched \in {"seq", "collect", "returned"}
    /\ pc' = "done"
    /\ LET sums == SumTuples(results, 1) IN
       stats' = [username |-> username,
                 total_posts |-> Len(posts),
                 downloaded_images |-> sums.images,
                 downloaded_videos |-> sums.videos,
                 skipped_files |-> sums.skipped,
                 errors |-> errors,
                 stories_downloaded |-> stories_downloaded,
                 reels_downloaded |-> reels_downloaded,
                 resumed_from_previous |-> resumed_from_previous]
    /\ UNCHANGED <<config_vars, url_vars, disk, ledger_vars, dirname_pattern, loaded,
                   resumed_from_previous, errors, stories_downloaded,
                   reels_downloaded, reel_pos, reel_log, phase_failures, raised, sched_vars>>

\* the sums over results and the DownloadStats that is returned
Finalize ==
    /\ \/ pc = "finalize"
       \/ pc = "schedule" /\ sched = "returned"
    /\ pc' = "done"
    /\ LET sums == SumTuples(results, 1) IN
       stats' = [username |-> username,
                 total_posts |-> Len(posts),
                 downloaded_images |-> sums.images,
                 downloaded_videos |-> sums.videos,
                 skipped_files |-> sums.skipped,
                 errors |-> errors,
                 stories_downloaded |-> stories_downloaded,
                 reels_downloaded |-> reels_downloaded,
                 resumed_from_previous |-> resumed_from_previous]
    /\ UNCHANGED <<config_vars, url_vars, disk, ledger_vars, dirname_pattern, loaded,
                   resumed_from_previous, errors, stories_downloaded,
                   reels_downloaded, reel_pos, reel_log, phase_failures, raised, sched_vars>>

NextMedia ==
    \/ CreateDir
    \/ Load
    \/ Resolve
    \/ Stories
    \/ ReelsBegin
    \/ ReelsItem
    \/ ReelsEnd
    \/ Enumerate
    \/ Propagate
    \/ Finalize
    \/ (pc = "schedule" /\ NextSched)

\* the largest number of keys in a ledger file a run starts from
MaxLedger == 2
\* ledger files a run can start from: none, a corrupt one, or one an
\* earlier run wrote
StartFiles ==
    {Missing, Text("truncated")}
      \cup {WrittenFile(S) : S \in {T \in SUBSET Keys : T # {} /\ Cardinality(T) <= MaxLedger}}

\* main() constructs the downloader and calls download_user_media
InitMedia ==
    /\ mode = "media"
    \* the sequential path and the largest pool
    /\ max_workers \in {ClampWorkers(1), ClampWorkers(MaxRequestedWorkers)}
    /\ resume \in BOOLEAN
    /\ username \in Targets
    /\ max_posts \in {{}} \cup {{n} : n \in 0..MaxPostsArg}
    /\ include_stories \in BOOLEAN
    /\ include_reels \in BOOLEAN
    /\ \E c \in (IF resume THEN StartFiles ELSE {Missing, WrittenFile({1})}) :
         progress_file = [t \in Targets |-> IF t = username THEN c ELSE Missing]
    /\ downloaded_posts = {}
    /\ run_no = 1
    /\ previous = None
    /\ disk = EmptyListing
    /\ stats_lock = 0
    /\ save_failed = FALSE
    /\ dirname_pattern = None
    /\ pc = "create_dir"
    /\ loaded = {}
    /\ resumed_from_previous = FALSE
    /\ errors = 0
    /\ stories_downloaded = 0
    /\ reels_downloaded = 0
    /\ reel_pos = 1
    /\ reel_log = <<>>
    /\ phase_failures = {}
    /\ raised = None
    /\ stats = NoStats
    /\ posts = <<>>
    /\ target = <<>>
    /\ sched = "idle"
    /\ sweep_pos = 1
    /\ fut = <<>>
    /\ outcome = <<>>
    /\ attempts = <<>>
    /\ provider_outcome = <<>>
    /\ observed = <<>>
    /\ results = <<>>
    /\ caught = None
    /\ propagations = 0
    /\ tries = <<>>
    /\ failed_urls = <<>>
    /\ failed_file = NotWritten
    /\ argv = NoArgv
    /\ exit_code = NoExit
    /\ error = NoError
    /\ context = ""
    /\ handled = None
    /\ max_retries = DefaultMaxRetries
    /\ call_outcomes = <<>>
    /\ retried = None

SpecMedia == InitMedia /\ [][NextMedia]_vars

(***************************************************************************)
(* Claims about the scheduler, checked under SpecSched                     *)
(***************************************************************************)
\* the items whose _download_post has begun
Started == {i \in Items : fut[i] \notin {"pending", "cancelled"}}

\* C1: at concurrency 1, when the provider's download of item k raised a
\* Fatal error, no item after k is attempted and that error is what the
\* scheduler raises to its caller.
C1_SeqFatalAborts ==
    max_workers = 1 =>
      \A k \in Items :
        (provider_outcome[k] \in FatalErrors /\ fut[k] = "finished") =>
          /\ \A j \in Items : j > k => fut[j] = "pending"
          /\ observed[k] => (sched = "raised" /\ caught = provider_outcome[k])

\* a sequential pass that a Fatal error of the provider ended
C1_Witness ==
    /\ max_workers = 1
    /\ sched = "raised"
    /\ \E k \in Items : k < Len(posts) /\ provider_outcome[k] \in FatalErrors

C3_OnlyFatalCancels ==
    (max_workers > 1 /\ \A k \in Items : provider_outcome[k] \notin FatalErrors) =>
      /\ \A i \in Items : fut[i] # "cancelled"
      /\ sched \in {"collect", "returned"}

\* a pooled pass that a connection failure stopped, one item never attempted
C3_Witness ==
    /\ max_workers > 1
    /\ sched = "raised"
    /\ caught = ConnectionException
    /\ \E i \in Items : fut[i] = "cancelled"

\* C4: an item whose provider download raised target-not-found or
\* target-private has that error as its outcome, not a zero tuple, and the
\* pass does not return normally.
C4_TargetErrorsAreFatal ==
    \A k \in Items :
      (provider_outcome[k] \in {ProfileNotExistsException,
                                PrivateProfileNotFollowedException}
         /\ fut[k] = "finished") =>
        /\ outcome[k] = Raises(provider_outcome[k])
        /\ sched # "returned"

\* a pass that returned normally although a download raised target-not-found
C4_Witness ==
    /\ sched = "returned"
    /\ \E k \in Items :
         /\ provider_outcome[k] = ProfileNotExistsException
         /\ outcome[k] = Returns(Zero)

\* C5: a connection failure is an item's outcome only after the provider's
\* download was attempted max_retries (3) times.
C5_DownloadRetried ==
    \A i \in Items :
      outcome[i] = Raises(ConnectionException) => attempts[i] = DefaultMaxRetries

\* an item whose outcome is a connection failure
C5_Witness ==
    \E i \in Items : outcome[i] = Raises(ConnectionException) /\ attempts[i] = 1

(***************************************************************************)
(* The program invoked again with the same arguments: main() builds a new  *)
(* IGDownloader, so nothing of the first invocation survives but the       *)
(* ledger files and the output directories                                 *)
(***************************************************************************)
MaxRuns == 2

\* every reel and every post of the run was delivered or skipped, the run
\* returned its statistics and no save failed
CleanRun ==
    /\ pc = "done"
    /\ ~save_failed
    /\ include_reels => reel_pos > Len(GetPosts(username))
    /\ \A j \in 1..Len(reel_log) :
          reel_log[j].what \in {"downloaded", "skip_ledger", "skip_existing"}
    /\ \A i \in Items : outcome[i] # Returns(Zero)

Rerun ==
    /\ mode = "media"
    /\ pc \in {"done", "raised"}
    /\ run_no < MaxRuns
    /\ run_no' = run_no + 1
    /\ previous' = IF CleanRun
                   THEN [clean |-> TRUE, total_files |-> TotalFiles(stats),
                         stories_downloaded |-> stats.stories_downloaded]
                   ELSE [clean |-> FALSE, total_files |-> 0,
                         stories_downloaded |-> 0]
    /\ downloaded_posts' = {}
    /\ stats_lock' = 0
    /\ save_failed' = FALSE
    /\ dirname_pattern' = None
    /\ pc' = "create_dir"
    /\ loaded' = {}
    /\ resumed_from_previous' = FALSE
    /\ errors' = 0
    /\ stories_downloaded' = 0
    /\ reels_downloaded' = 0
    /\ reel_pos' = 1
    /\ reel_log' = <<>>
    /\ phase_failures' = {}
    /\ raised' = None
    /\ stats' = NoStats
    /\ posts' = <<>>
    /\ target' = <<>>
    /\ sched' = "idle"
    /\ sweep_pos' = 1
    /\ fut' = <<>>
    /\ outcome' = <<>>
    /\ attempts' = <<>>
    /\ provider_outcome' = <<>>
    /\ observed' = <<>>
    /\ results' = <<>>
    /\ caught' = None
    /\ propagations' = 0
    /\ UNCHANGED <<mode, max_workers, resume, username, max_posts,
                   include_stories, include_reels, disk, progress_file,
                   url_vars, retry_vars, main_vars, classify_vars>>

NextRerun ==
    \/ NextMedia
    \/ Rerun

\* two invocations with resume enabled, the first one from no ledger or
\* from the ledger of an earlier run
InitRerun ==
    /\ InitMedia
    /\ resume
    /\ progress_file[username] \in {Missing, WrittenFile({1})}

SpecRerun == InitRerun /\ [][NextRerun]_vars

(***************************************************************************)
(* download_post_from_url on one URL (main, --url) and                     *)
(* download_posts_from_urls on a list of URLs (main, --url-file).  A URL   *)
(* is the key of the post it names, or InvalidUrl.                         *)
(***************************************************************************)
MaxUrls == 2

RECURSIVE SeqsUpTo(_, _)
\* the sequences over S of length at most n
SeqsUpTo(S, n) ==
    IF n = 0 THEN {<<>>}
    ELSE LET shorter == SeqsUpTo(S, n - 1) IN
         shorter \cup {Append(q, x) : q \in shorter, x \in S}

InvalidUrl == 0
ValueError == "ValueError"
\* the posts the URLs name: the last post of A and the posts of B
UrlKeys == {k \in Keys : k >= 3}
Urls == UrlKeys \cup {InvalidUrl}
UrlLists == SeqsUpTo(Urls, MaxUrls) \ {<<>>}
BatchMaxRetries == 3

UrlRunning == {"fetch"} \cup Running

\* a pool worker is inside download_with_retry(posts[j])
UrlBusy(j) ==
    \/ fut[j] \in UrlRunning
    \/ fut[j] = "finished" /\ outcome[j].kind = "raise"
         /\ tries[j] < BatchMaxRetries - 1

\* the next URL goes to download_post_from_url: the loop of the sequential
\* path or of main, or a pool worker taking download_with_retry(url)
UrlBegin(i) ==
    /\ pc = "urls"
    /\ i \in Items
    /\ fut[i] = "pending"
    /\ \A j \in 1..(i - 1) : fut[j] # "pending"
    /\ IF mode = "url_file" /\ max_workers > 1
       THEN Cardinality({j \in Items : UrlBusy(j)}) < max_workers
       ELSE \A j \in 1..(i - 1) : observed[j]
    /\ fut' = [fut EXCEPT ![i] = "fetch"]
    /\ UNCHANGED <<config_vars, url_vars, disk, ledger_vars, dirname_pattern,
                   run_vars, posts, target, sched, sweep_pos, outcome, attempts,
                   provider_outcome, observed, results, caught, propagations>>

\* an attempt of download_post_from_url raised e before _download_post was
\* called: the batch loop sleeps and calls again while attempts are left,
\* otherwise the error is what the call ends with
UrlFetchFails(i, e) ==
    IF mode = "url_file" /\ tries[i] < BatchMaxRetries - 1
    THEN /\ tries' = [tries EXCEPT ![i] = @ + 1]
         /\ UNCHANGED <<fut, outcome>>
    ELSE /\ Finish(i, Raises(e))
         /\ UNCHANGED tries

\* download_post_from_url up to the call of _download_post: the shortcode
\* from the URL, Post.from_shortcode under the connection retry, the owner
\* and _create_output_directory
UrlFetch(i) ==
    /\ pc = "urls"
    /\ i \in Items
    /\ fut[i] = "fetch"
    /\ IF posts[i] = InvalidUrl
       THEN UrlFetchFails(i, ValueError) /\ UNCHANGED target
       ELSE \E r \in RetriedCallOutcomes, e \in {OK} \cup OSErrors :
              IF r # OK
              THEN UrlFetchFails(i, r) /\ UNCHANGED target
              ELSE IF e # OK
              THEN UrlFetchFails(i, CreateDirError(e)) /\ UNCHANGED target
              ELSE /\ target' = [target EXCEPT ![i] = Owner(posts[i])]
                   /\ fut' = [fut EXCEPT ![i] = "check"]
                   /\ UNCHANGED <<outcome, tries>>
    /\ UNCHANGED <<config_vars, failed_urls, failed_file, disk, ledger_vars,
                   dirname_pattern, run_vars, posts, sched, sweep_pos, attempts,
                   provider_outcome, observed, results, caught, propagations>>

\* main, --url: download_post_from_url returned its DownloadStats or raised
UrlSingleEnd ==
    /\ pc = "urls"
    /\ mode = "url"
    /\ fut[1] = "finished"
    /\ fut' = [fut EXCEPT ![1] = "done"]
    /\ observed' = [observed EXCEPT ![1] = TRUE]
    /\ IF outcome[1].kind = "raise"
       THEN /\ pc' = "raised"
            /\ raised' = outcome[1].exc
            /\ UNCHANGED <<stats, results>>
       ELSE /\ pc' = "done"
            /\ results' = Append(results, outcome[1].tuple)
            /\ stats' = [username |-> target[1],
                          total_posts |-> 1,
                          downloaded_images |-> outcome[1].tuple.images,
                          downloaded_videos |-> outcome[1].tuple.videos,
                          skipped_files |-> outcome[1].tuple.skipped,
                          errors |-> 0,
                          stories_downloaded |-> 0,
                          reels_downloaded |-> 0,
                          resumed_from_previous |-> FALSE]
            /\ UNCHANGED raised
    /\ UNCHANGED <<config_vars, url_vars, disk, ledger_vars, dirname_pattern,
                   loaded, resumed_from_previous, errors, stories_downloaded,
                   reels_downloaded, reel_pos, reel_log, phase_failures, posts, target, sched,
                   sweep_pos, outcome, attempts, provider_outcome, caught,
                   propagations>>

\* the whole-item retry after _download_post raised: except Exception with
\* attempts left, sleep and call download_post_from_url again
UrlRetry(i) ==
    /\ pc = "urls"
    /\ mode = "url_file"
    /\ i \in Items
    /\ fut[i] = "finished"
    /\ outcome[i].kind = "raise"
    /\ tries[i] < BatchMaxRetries - 1
    /\ tries' = [tries EXCEPT ![i] = @ + 1]
    /\ fut' = [fut EXCEPT ![i] = "fetch"]
    /\ outcome' = [outcome EXCEPT ![i] = NoOutcome]
    /\ provider_outcome' = [provider_outcome EXCEPT ![i] = None]
    /\ UNCHANGED <<config_vars, failed_urls, failed_file, disk, ledger_vars,
                   dirname_pattern, run_vars, posts, target, sched, sweep_pos,
                   attempts, observed, results, caught, propagations>>

\* bookkeeping that lets a Fatal error of a URL end the batch
UrlCollectRaisesFatal(i) ==
    /\ pc = "urls"
    /\ mode = "url_file"
    /\ i \in Items
    /\ fut[i] = "finished"
    /\ max_workers > 1 => stats_lock = 0
    /\ fut' = [fut EXCEPT ![i] = "done"]
    /\ observed' = [observed EXCEPT ![i] = TRUE]
    /\ IF outcome[i].kind = "raise"
       THEN /\ tries[i] >= BatchMaxRetries - 1
            /\ IF outcome[i].exc \in FatalErrors
               THEN /\ pc' = "raised"
                    /\ raised' = outcome[i].exc
                    /\ UNCHANGED <<failed_urls, errors>>
               ELSE /\ failed_urls' =
                          Append(failed_urls, [url |-> posts[i], error |-> outcome[i].exc])
                    /\ errors' = errors + 1
                    /\ UNCHANGED <<pc, raised>>
            /\ UNCHANGED results
       ELSE /\ results' = Append(results, outcome[i].tuple)
            /\ UNCHANGED <<failed_urls, errors, pc, raised>>
    /\ outcome' = [outcome EXCEPT ![i] = NoOutcome]
    /\ provider_outcome' = [provider_outcome EXCEPT ![i] = None]
    /\ tries' = [tries EXCEPT ![i] = 0]
    /\ target' = [target EXCEPT ![i] = NoOne]
    /\ UNCHANGED <<config_vars, failed_file, disk, ledger_vars,
                   dirname_pattern, loaded, resumed_from_previous,
                   stories_downloaded, reels_downloaded, reel_pos, reel_log, phase_failures,
                   stats, posts, sched, sweep_pos, attempts, caught,
                   propagations>>

\* the bookkeeping for one URL: its counts added, or after the last attempt
\* its failure record appended and errors += 1; in the pool this is the
\* collecting thread, under stats_lock
UrlCollect(i) ==
    /\ pc = "urls"
    /\ mode = "url_file"
    /\ i \in Items
    /\ fut[i] = "finished"
    /\ max_workers > 1 => stats_lock = 0
    /\ fut' = [fut EXCEPT ![i] = "done"]
    /\ observed' = [observed EXCEPT ![i] = TRUE]
    /\ IF outcome[i].kind = "raise"
       THEN /\ tries[i] >= BatchMaxRetries - 1
            /\ failed_urls' = Append(failed_urls, [url |-> posts[i], error |-> outcome[i].exc])
            /\ errors' = errors + 1
            /\ UNCHANGED results
       ELSE /\ results' = Append(results, outcome[i].tuple)
            /\ UNCHANGED <<failed_urls, errors>>
    \* stats, error, attempt and username of this URL go out of scope
    /\ outcome' = [outcome EXCEPT ![i] = NoOutcome]
    /\ provider_outcome' = [provider_outcome EXCEPT ![i] = None]
    /\ tries' = [tries EXCEPT ![i] = 0]
    /\ target' = [target EXCEPT ![i] = NoOne]
    /\ UNCHANGED <<config_vars, failed_file, disk, ledger_vars,
                   dirname_pattern, pc, loaded, resumed_from_previous,
                   stories_downloaded, reels_downloaded, reel_pos, reel_log, phase_failures,
                   raised, stats, posts, sched, sweep_pos, attempts, caught,
                   propagations>>

\* the DownloadStats of a batch
BatchStats ==
    LET sums == SumTuples(results, 1) IN
    [username |-> "batch_download",
     total_posts |-> Len(posts),
     downloaded_images |-> sums.images,
     downloaded_videos |-> sums.videos,
     skipped_files |-> sums.skipped,
     errors |-> errors,
     stories_downloaded |-> 0,
     reels_downloaded |-> 0,
     resumed_from_previous |-> FALSE]

\* an end of the batch that writes the failure file whatever the list holds
UrlBatchEndAlwaysWrites ==
    /\ pc = "urls"
    /\ mode = "url_file"
    /\ \A i \in Items : observed[i]
    /\ pc' = "done"
    /\ failed_file' = FailedFile(failed_urls)
    /\ stats' = BatchStats
    /\ UNCHANGED <<config_vars, tries, failed_urls, disk, ledger_vars,
                   dirname_pattern, loaded, resumed_from_previous, errors,
                   stories_downloaded, reels_downloaded, reel_pos, reel_log, phase_failures,
                   raised, sched_vars>>

\* after the loop: _save_failed_urls if there are records, and the
\* DownloadStats of the batch
UrlBatchEnd ==
    /\ pc = "urls"
    /\ mode = "url_file"
    /\ \A i \in Items : observed[i]
    /\ pc' = "done"
    /\ \E written \in BOOLEAN :
         failed_file' = IF Len(failed_urls) > 0
                        THEN (IF written THEN FailedFile(failed_urls) ELSE WriteFailed)
                        ELSE failed_file
    /\ stats' = BatchStats
    /\ UNCHANGED <<config_vars, tries, failed_urls, disk, ledger_vars,
                   dirname_pattern, loaded, resumed_from_previous, errors,
                   stories_downloaded, reels_downloaded, reel_pos, reel_log, phase_failures,
                   raised, sched_vars>>

NextUrl ==
    \/ \E i \in Items : UrlBegin(i)
    \/ \E i \in Items : UrlFetch(i)
    \/ \E i \in Items : Check(i)
    \/ \E i \in Items : Download(i)
    \/ \E i \in Items : LockAdd(i)
    \/ \E i \in Items : SaveUnlock(i)
    \/ \E i \in Items : UrlRetry(i)
    \/ \E i \in Items : UrlCollect(i)
    \/ UrlSingleEnd
    \/ UrlBatchEnd

\* the ledger file an earlier run on target t can have left: none, or one
\* holding the first post of t
EarlierLedgers(t) == {Missing, WrittenFile({GetPosts(t)[1]})}

\* main() constructs the downloader and calls download_post_from_url or
\* download_posts_from_urls
InitUrl ==
    /\ mode \in {"url", "url_file"}
    /\ max_workers \in {ClampWorkers(r) : r \in 1..MaxRequestedWorkers}
    /\ resume \in BOOLEAN
    /\ username = NoOne
    /\ max_posts = {}
    /\ include_stories = FALSE
    /\ include_reels = FALSE
    /\ posts \in UrlLists
    /\ mode = "url" => Len(posts) = 1 /\ max_workers = 1
    /\ progress_file \in [Targets -> UNION {EarlierLedgers(t) : t \in Targets}]
    /\ \A t \in Targets : progress_file[t] \in EarlierLedgers(t)
    /\ ~resume => \A t \in Targets : progress_file[t] = Missing
    /\ \A t \in Targets :
          (\A i \in 1..Len(posts) : posts[i] = InvalidUrl \/ Owner(posts[i]) # t)
            => progress_file[t] = Missing
    /\ downloaded_posts = {}
    /\ run_no = 1
    /\ previous = [ledger |-> [t \in Targets |-> LoadProgress(progress_file[t]).value]]
    /\ disk = EmptyListing
    /\ stats_lock = 0
    /\ save_failed = FALSE
    /\ dirname_pattern = None
    /\ pc = "urls"
    /\ loaded = {}
    /\ resumed_from_previous = FALSE
    /\ errors = 0
    /\ stories_downloaded = 0
    /\ reels_downloaded = 0
    /\ reel_pos = 1
    /\ reel_log = <<>>
    /\ phase_failures = {}
    /\ raised = None
    /\ stats = NoStats
    /\ target = [i \in 1..Len(posts) |-> NoOne]
    /\ sched = "idle"
    /\ sweep_pos = 1
    /\ fut = [i \in 1..Len(posts) |-> "pending"]
    /\ outcome = [i \in 1..Len(posts) |-> NoOutcome]
    /\ attempts = [i \in 1..Len(posts) |-> 0]
    /\ provider_outcome = [i \in 1..Len(posts) |-> None]
    /\ observed = [i \in 1..Len(posts) |-> FALSE]
    /\ results = <<>>
    /\ caught = None
    /\ propagations = 0
    /\ tries = [i \in 1..Len(posts) |-> 0]
    /\ failed_urls = <<>>
    /\ failed_file = NotWritten
    /\ argv = NoArgv
    /\ exit_code = NoExit
    /\ error = NoError
    /\ context = ""
    /\ handled = None
    /\ max_retries = DefaultMaxRetries
    /\ call_outcomes = <<>>
    /\ retried = None

SpecUrl == InitUrl /\ [][NextUrl]_vars

(***************************************************************************)
(* _load_progress called on its own, on every kind of file content         *)
(***************************************************************************)
\* the values a field of the JSON object can hold
FieldValues ==
    {Absent, JNull, JNumber}
      \cup {JString(cs) : cs \in SeqsUpTo(Chars, NumChars)}
      \cup {JArray(SortedList(S), n) : S \in SUBSET (1..2), n \in BOOLEAN}
      \cup {JDict(ks) : ks \in SUBSET Chars}

\* the file contents _load_progress can meet
FileContents ==
    {Missing, Unreadable}
      \cup {Text(x) : x \in BadTexts}
      \cup {Json(v) : v \in {JNull, JNumber, JString(<<>>), JArray(<<>>, FALSE)}}
      \cup {Json(JObject(p, r)) : p \in FieldValues, r \in FieldValues}

\* all_downloaded = self._load_progress(username), on the file as found
\* and again on the file as a save left it
LoadCall ==
    /\ mode = "load"
    /\ pc \in {"load", "saved"}
    /\ pc' = IF pc = "load" THEN "loaded" ELSE "reloaded"
    /\ LET r == LoadProgress(progress_file[username]) IN
         /\ loaded' = r.value
         /\ raised' = IF r.raised THEN OtherException ELSE None
    /\ UNCHANGED <<config_vars, url_vars, disk, ledger_vars, dirname_pattern,
                   resumed_from_previous, errors, stories_downloaded,
                   reels_downloaded, reel_pos, reel_log, phase_failures, stats, sched_vars>>

\* self._save_progress(username, downloaded_posts) on the file just read,
\* with any set of keys
SaveCall ==
    /\ mode = "load"
    /\ pc = "loaded"
    /\ pc' = "saved"
    /\ \E S \in SUBSET Keys, how \in SaveOutcomes :
         /\ downloaded_posts' = S
         /\ progress_file' =
               [progress_file EXCEPT ![username] = SaveProgress(@, S, how)]
         /\ save_failed' = (how # "ok")
    /\ UNCHANGED <<config_vars, url_vars, disk, stats_lock, dirname_pattern,
                   loaded, resumed_from_previous, errors, stories_downloaded,
                   reels_downloaded, reel_pos, reel_log, phase_failures, raised, stats,
                   sched_vars>>

NextLoad ==
    \/ LoadCall
    \/ SaveCall

InitLoad ==
    /\ mode = "load"
    /\ max_workers = ClampWorkers(1)
    /\ resume = TRUE
    /\ username \in Targets
    /\ max_posts = {}
    /\ include_stories = FALSE
    /\ include_reels = FALSE
    /\ \E c \in FileContents :
         progress_file = [t \in Targets |-> IF t = username THEN c ELSE Missing]
    /\ downloaded_posts = {}
    /\ run_no = 1
    /\ previous = None
    /\ disk = EmptyListing
    /\ stats_lock = 0
    /\ save_failed = FALSE
    /\ dirname_pattern = None
    /\ pc = "load"
    /\ loaded = {}
    /\ resumed_from_previous = FALSE
    /\ errors = 0
    /\ stories_downloaded = 0
    /\ reels_downloaded = 0
    /\ reel_pos = 1
    /\ reel_log = <<>>
    /\ phase_failures = {}
    /\ raised = None
    /\ stats = NoStats
    /\ posts = <<>>
    /\ target = <<>>
    /\ sched = "idle"
    /\ sweep_pos = 1
    /\ fut = <<>>
    /\ outcome = <<>>
    /\ attempts = <<>>
    /\ provider_outcome = <<>>
    /\ observed = <<>>
    /\ results = <<>>
    /\ caught = None
    /\ propagations = 0
    /\ tries = <<>>
    /\ failed_urls = <<>>
    /\ failed_file = NotWritten
    /\ argv = NoArgv
    /\ exit_code = NoExit
    /\ error = NoError
    /\ context = ""
    /\ handled = None
    /\ max_retries = DefaultMaxRetries
    /\ call_outcomes = <<>>
    /\ retried = None

SpecLoad == InitLoad /\ [][NextLoad]_vars

(***************************************************************************)
(* _retry_on_connection_error called on its own: any max_retries from 1    *)
(* up, and a wrapped func whose successive calls return or raise anything  *)
(***************************************************************************)
\* the largest max_retries tried
MaxRetriesArg == 3

\* self._retry_on_connection_error(func, max_retries=max_retries)
RetryCall ==
    /\ mode = "retry"
    /\ pc = "call"
    /\ pc' = "called"
    /\ retried' = RetryOnConnectionError(call_outcomes, max_retries)
    /\ raised' = IF retried'.outcome = OK THEN None ELSE retried'.outcome
    /\ UNCHANGED <<mode, max_workers, resume, username, max_posts,
                   include_stories, include_reels, run_no, previous,
                   max_retries, call_outcomes, main_vars, classify_vars,
                   url_vars, disk, ledger_vars, dirname_pattern, loaded,
                   resumed_from_previous, errors, stories_downloaded,
                   reels_downloaded, reel_pos, reel_log, phase_failures, stats,
                   sched_vars>>

NextRetry == RetryCall

InitRetry ==
    /\ mode = "retry"
    /\ max_workers = ClampWorkers(1)
    /\ resume = FALSE
    /\ username \in Targets
    /\ max_posts = {}
    /\ include_stories = FALSE
    /\ include_reels = FALSE
    /\ max_retries \in 1..MaxRetriesArg
    /\ call_outcomes \in CallOutcomes(max_retries)
    /\ retried = None
    /\ progress_file = [t \in Targets |-> Missing]
    /\ downloaded_posts = {}
    /\ run_no = 1
    /\ previous = None
    /\ disk = EmptyListing
    /\ stats_lock = 0
    /\ save_failed = FALSE
    /\ dirname_pattern = None
    /\ pc = "call"
    /\ loaded = {}
    /\ resumed_from_previous = FALSE
    /\ errors = 0
    /\ stories_downloaded = 0
    /\ reels_downloaded = 0
    /\ reel_pos = 1
    /\ reel_log = <<>>
    /\ phase_failures = {}
    /\ raised = None
    /\ stats = NoStats
    /\ posts = <<>>
    /\ target = <<>>
    /\ sched = "idle"
    /\ sweep_pos = 1
    /\ fut = <<>>
    /\ outcome = <<>>
    /\ attempts = <<>>
    /\ provider_outcome = <<>>
    /\ observed = <<>>
    /\ results = <<>>
    /\ caught = None
    /\ propagations = 0
    /\ tries = <<>>
    /\ failed_urls = <<>>
    /\ failed_file = NotWritten
    /\ argv = NoArgv
    /\ exit_code = NoExit
    /\ error = NoError
    /\ context = ""
    /\ handled = None

SpecRetry == InitRetry /\ [][NextRetry]_vars

(***************************************************************************)
(* Claims about a target-media run, checked under SpecMedia                *)
(***************************************************************************)
\* keys the provider delivered in this run, as posts or in the reels sub-phase
NewlyDownloaded ==
    {posts[i] : i \in {j \in Items : provider_outcome[j] = OK}}
      \cup {reel_log[j].key : j \in {n \in 1..Len(reel_log) : reel_log[n].what = "downloaded"}}

LedgerHits == {i \in Items : posts[i] \in loaded}

RECURSIVE ExistingSkipped(_)
\* files found by the glob for the items of posts[i..] that are not ledger hits
ExistingSkipped(i) ==
    IF i > Len(posts) THEN 0
    ELSE (IF i \in LedgerHits \/ disk["posts"][posts[i]] = Unlisted
          THEN 0 ELSE disk["posts"][posts[i]])
         + ExistingSkipped(i + 1)

C7_IdempotentResume ==
    (/\ run_no = 2 /\ previous.clean /\ pc = "done" /\ loaded # {}
     /\ stats.stories_downloaded = previous.stories_downloaded) =>
      /\ stats.downloaded_images = 0
      /\ stats.downloaded_videos = 0
      /\ stats.reels_downloaded = 0
      /\ stats.resumed_from_previous
      /\ TotalFiles(stats) = previous.total_files

\* C7, amended: after a clean first run, the second run passes no post and
\* no reel to the provider and adds nothing to the ledger set; when it
\* returns, the ledger file still reads as the set it loaded and it reports
\* no image, video or reel,
\* resumed_from_previous exactly when the ledger holds a key, and a
\* total_files that is its own stories count.
C7_SecondRunDownloadsNothing ==
    (run_no = 2 /\ previous.clean) =>
      /\ \A i \in Items : attempts[i] = 0
      /\ \A j \in 1..Len(reel_log) :
            reel_log[j].what \in {"skip_ledger", "skip_existing"}
      /\ downloaded_posts = loaded
      /\ pc = "done" =>
            /\ LoadProgress(progress_file[username]).value = loaded
            /\ stats.downloaded_images = 0
            /\ stats.downloaded_videos = 0
            /\ stats.reels_downloaded = 0
            /\ stats.resumed_from_previous = (loaded # {})
            /\ TotalFiles(stats) = stats.stories_downloaded

\* the first run delivered at least two files and the second run, resumed
\* from its ledger, skipped every post it enumerated
C7_Witness ==
    /\ run_no = 2 /\ previous.clean /\ pc = "done"
    /\ previous.total_files >= 2
    /\ Len(posts) >= 2
    /\ stats.resumed_from_previous
    /\ stats.skipped_files >= Len(posts)
    /\ TotalFiles(stats) < previous.total_files

(***************************************************************************)
(* Claims about _load_progress, checked under SpecLoad                     *)
(***************************************************************************)
\* a field as _save_progress writes it: absent, or an array of strings
FieldWellFormed(fv) == fv.t = "absent" \/ (fv.t = "array" /\ ~fv.nested)

\* a ledger file with malformed content: not JSON, or JSON whose top level
\* or one of whose two fields has the wrong type
Malformed(c) ==
    \/ c.kind = "text"
    \/ /\ c.kind = "json"
       /\ \/ c.val.t # "object"
          \/ ~FieldWellFormed(c.val.downloaded_posts)
          \/ ~FieldWellFormed(c.val.downloaded_reels)

\* C10: _load_progress never raises, and for a missing file, a file that
\* cannot be read and every malformed content it returns the empty set.
C10_LoadFallsBackToEmpty ==
    (mode = "load" /\ pc = "loaded") =>
      /\ raised = None
      /\ LET c == progress_file[username] IN
         (c.kind \in {"missing", "unreadable"} \/ Malformed(c)) => loaded = {}

\* a field holding a string instead of an array: its characters come back
\* as ledger keys
C10_Witness ==
    /\ mode = "load" /\ pc = "loaded"
    /\ progress_file[username].kind = "json"
    /\ progress_file[username].val.t = "object"
    /\ progress_file[username].val.downloaded_posts.t = "string"
    /\ Cardinality(loaded) = 2

(***************************************************************************)
(* Claims about the URL modes, checked under SpecUrl                       *)
(***************************************************************************)
\* the keys a reader of target t's ledger file gets
Persisted(t) == LoadProgress(progress_file[t]).value

\* C8: the persisted ledger of a target only grows: as long as no save has
\* failed, every key that was in a target's ledger file when the operation
\* started is still in it.
C8_LedgerOnlyGrows ==
    (mode \in {"url", "url_file"} /\ ~save_failed) =>
      \A t \in Targets : previous.ledger[t] \subseteq Persisted(t)

\* a single-item download with resume enabled has ended; the owner's ledger
\* file held another key before and holds only the new one now
C8_Witness ==
    /\ mode = "url" /\ resume /\ pc = "done" /\ ~save_failed
    /\ posts = <<3>>
    /\ stats.downloaded_images = SidecarNodes
    /\ previous.ledger[Owner(3)] = {1}
    /\ Persisted(Owner(3)) = {3}

\* C9: the ledger file of a target holds only keys of items the target owns.
C9_LedgerPerTarget ==
    mode \in {"url", "url_file"} =>
      \A t \in Targets : \A k \in Persisted(t) : Owner(k) = t

\* a batch of one URL of A and one of B, both downloaded, has ended and the
\* ledger file of B holds the key of A's post as well
C9_Witness ==
    /\ mode = "url_file" /\ resume /\ pc = "done"
    /\ posts = <<3, 4>>
    /\ stats.errors = 0
    /\ Owner(3) # Owner(4)
    /\ Persisted(Owner(4)) = {3, 4}

(***************************************************************************)
(* Claims about a save followed by a load, checked under SpecLoad          *)
(***************************************************************************)
\* the keys a well-formed field stands for
FieldKeys(fv) == IF fv.t = "absent" THEN {} ELSE Range(fv.elems)

\* C11: for a ledger file whose two fields are arrays of strings (or absent),
\* _load_progress returns the union of downloaded_posts and downloaded_reels;
\* a successful _save_progress of a set S leaves a file whose downloaded_posts
\* array holds exactly S and whose downloaded_reels array is empty, and the
\* load that follows returns exactly S.
C11_LoadIsUnionAndRoundTrip ==
    LET c == progress_file[username] IN
    /\ (/\ mode = "load" /\ pc \in {"loaded", "reloaded"}
        /\ c.kind = "json" /\ c.val.t = "object"
        /\ FieldWellFormed(c.val.downloaded_posts)
        /\ FieldWellFormed(c.val.downloaded_reels)) =>
          loaded = FieldKeys(c.val.downloaded_posts)
                     \cup FieldKeys(c.val.downloaded_reels)
    /\ (mode = "load" /\ pc \in {"saved", "reloaded"} /\ ~save_failed) =>
          /\ c.kind = "json" /\ c.val.t = "object"
          /\ c.val.downloaded_posts.t = "array"
          /\ Range(c.val.downloaded_posts.elems) = downloaded_posts
          /\ c.val.downloaded_reels = JArray(<<>>, FALSE)
          /\ pc = "reloaded" => loaded = downloaded_posts

\* a set of two keys was saved over a file that held something else, and
\* the load after it returned the two keys
C11_Witness ==
    /\ mode = "load" /\ pc = "reloaded" /\ ~save_failed
    /\ Cardinality(downloaded_posts) = 2
    /\ loaded = downloaded_posts

\* C12: a _save_progress that fails leaves the ledger file as it was, and a
\* reader after the failed save gets what a reader before it got.
C12_FailedFlushKeepsFile ==
    /\ [][(mode = "load" /\ pc' = "saved" /\ save_failed')
            => progress_file' = progress_file]_vars
    /\ [][(mode = "load" /\ pc = "saved" /\ save_failed /\ pc' = "reloaded")
            => loaded' = loaded]_vars

\* a save failed part-way and the reader after it found no ledger
C12_Witness ==
    /\ mode = "load" /\ pc = "reloaded" /\ save_failed
    /\ progress_file[username] = Text("truncated")
    /\ loaded = {}

(***************************************************************************)
(* Claims about the flush of the ledger, checked under SpecMedia and       *)
(* SpecSched                                                               *)
(***************************************************************************)
\* the orchestrator is past the load of the ledger and has not raised
AfterLoad ==
    pc \in {"resolve", "stories", "reels", "reels_loop", "enumerate", "schedule",
            "finalize", "done"}

\* C13: in a target-media run with resume enabled, as long as no save has
\* failed, whenever the lock is free nothing in the in-memory ledger set is
\* missing from the ledger file; once the ledger is loaded, and also after
\* the scheduler has raised, the file reads back as exactly the in-memory
\* set, and every key whose download has returned is in the file.
C13_FlushedAfterEveryMutation ==
    (mode = "media" /\ resume /\ ~save_failed /\ stats_lock = 0) =>
      /\ downloaded_posts \subseteq Persisted(username)
      /\ (AfterLoad \/ (pc = "raised" /\ sched = "raised")) =>
            Persisted(username) = downloaded_posts
      /\ \A i \in Items :
            (provider_outcome[i] = OK /\ fut[i] = "finished") =>
               posts[i] \in Persisted(username)
      /\ \A j \in 1..Len(reel_log) :
            reel_log[j].what = "downloaded" => reel_log[j].key \in Persisted(username)

\* a pooled pass was aborted by a Fatal error after another item had been
\* downloaded: the key of that item is in the ledger file
C13_Witness ==
    /\ mode = "media" /\ resume /\ ~save_failed
    /\ max_workers > 1
    /\ pc = "raised" /\ sched = "raised" /\ caught \in FatalErrors
    /\ \E i \in Items :
         /\ provider_outcome[i] = OK
         /\ posts[i] \notin loaded
         /\ posts[i] \in Persisted(username)

\* C14: at concurrency > 1 with resume enabled, at most one worker is
\* between its add and the end of its save; every item whose download
\* succeeded and whose worker has returned is in the in-memory set and, unless
\* a save failed, in the ledger file; when the pass has ended the file reads
\* back as the loaded set plus every key downloaded in the pass.
C14_NoLostUpdate ==
    (mode = "sched" /\ max_workers > 1 /\ resume) =>
      /\ Cardinality({i \in Items : fut[i] = "save"}) <= 1
      /\ stats_lock # 0 => fut[stats_lock] = "save"
      /\ loaded \subseteq downloaded_posts
      /\ \A i \in Items :
            (provider_outcome[i] = OK /\ fut[i] = "finished") =>
               /\ posts[i] \in downloaded_posts
               /\ ~save_failed => posts[i] \in Persisted(username)
      /\ (sched \in {"returned", "raised"} /\ ~save_failed) =>
            Persisted(username) =
               loaded \cup {posts[i] : i \in {j \in Items : provider_outcome[j] = OK}}

\* two workers at once: one holds the lock and is saving, the other waits
\* for the lock, and the key of an item completed before them is in the file
C14_Witness ==
    /\ mode = "sched" /\ max_workers > 1 /\ resume /\ ~save_failed
    /\ \E i, j, k \in Items :
         /\ fut[i] = "finished" /\ provider_outcome[i] = OK
         /\ posts[i] \in Persisted(username)
         /\ fut[j] = "save" /\ stats_lock = j
         /\ fut[k] = "lock"

(***************************************************************************)
(* Claims about the counters of a scheduler pass, checked under SpecSched  *)
(***************************************************************************)
\* what item i contributes, as its inputs determine it: whether its key was
\* in the ledger, the files the glob found, what the provider's download did
ItemCounts(i) ==
    IF resume /\ posts[i] \in loaded THEN Tuple(0, 0, 1)
    ELSE IF disk["posts"][posts[i]] > 0 THEN Tuple(0, 0, disk["posts"][posts[i]])
    ELSE IF provider_outcome[i] = OK THEN CountDownloaded(posts[i])
    ELSE Zero

RECURSIVE SumItemCounts(_)
SumItemCounts(i) ==
    IF i > Len(posts) THEN Zero
    ELSE LET rest == SumItemCounts(i + 1) IN
         Tuple(ItemCounts(i).images + rest.images,
               ItemCounts(i).videos + rest.videos,
               ItemCounts(i).skipped + rest.skipped)

\* a provider error that _download_post lets through
Aborts(e) == e \in ErrorKinds /\ DownloadPostExcept(e).kind = "raise"

\* C15: at every worker count (1, 2 and 8), a pass that returns has one
\* result per item and its image, video and skip totals are the sums of what
\* the items' inputs determine, whatever the order of completion; a pass
\* returns only when no item's download raised an error that aborts, and
\* raises only when one did.
C15_CountersIndependentOfWorkers ==
    mode = "sched" =>
      /\ sched = "returned" =>
            /\ Len(results) = Len(posts)
            /\ SumTuples(results, 1) = SumItemCounts(1)
            /\ \A i \in Items : ~Aborts(provider_outcome[i])
      /\ sched = "raised" => \E i \in Items : Aborts(provider_outcome[i])

\* eight workers, three items downloaded, collected in the reverse of the
\* order of the list
C15_Witness ==
    /\ mode = "sched" /\ max_workers = MaxWorkersLimit /\ sched = "returned"
    /\ Len(posts) = 3
    /\ \A i \in Items : provider_outcome[i] = OK
    /\ results = <<CountDownloaded(posts[3]), CountDownloaded(posts[2]),
                   CountDownloaded(posts[1])>>
    /\ SumTuples(results, 1) = Tuple(1 + SidecarNodes, 1, 0)

(***************************************************************************)
(* Claims about _retry_on_connection_error, checked under SpecRetry        *)
(***************************************************************************)
\* the calls of func that raised ConnectionException
FailedCalls == {a \in 1..retried.calls : call_outcomes[a] = ConnectionException}

\* C16: func is never called more than max_retries times; when every call
\* raises ConnectionException it is called exactly max_retries times and
\* ConnectionException is what the caller gets.
C16_RetryBound ==
    (mode = "retry" /\ pc = "called") =>
      /\ retried.calls <= max_retries
      /\ (\A a \in 1..max_retries : call_outcomes[a] = ConnectionException) =>
            /\ retried.calls = max_retries
            /\ retried.outcome = ConnectionException
            /\ raised = ConnectionException

\* three attempts, each a connection failure, and the failure surfaced
C16_Witness ==
    /\ mode = "retry" /\ pc = "called"
    /\ max_retries = DefaultMaxRetries
    /\ call_outcomes = [a \in 1..max_retries |-> ConnectionException]
    /\ retried.calls = DefaultMaxRetries
    /\ raised = ConnectionException

C17_OnlyRetryableRetried ==
    /\ [](mode = "url_file" =>
            \A i \in Items : posts[i] = InvalidUrl => tries[i] = 0)
    /\ [][mode = "url_file" =>
            \A i \in Items :
              (fut[i] = "finished" /\ tries'[i] > tries[i]) =>
                 outcome[i].exc \in RetryableErrors]_vars

\* a malformed URL on its third attempt
C17_Witness ==
    /\ mode = "url_file"
    /\ \E i \in Items :
         /\ posts[i] = InvalidUrl
         /\ fut[i] = "fetch"
         /\ tries[i] = BatchMaxRetries - 1

\* C19: a batch never raises: whatever errors its URLs end with, the
\* orchestrator stays in its loop until every URL has been attempted and
\* accounted for, and then returns a DownloadStats for the whole list.
C19_BatchNeverAborts ==
    mode = "url_file" =>
      /\ raised = None
      /\ pc \in {"urls", "done"}
      /\ pc = "done" =>
            /\ \A i \in Items : fut[i] = "done" /\ observed[i]
            /\ stats = BatchStats
            /\ stats.total_posts = Len(posts)
            /\ Len(results) + Len(failed_urls) = Len(posts)

\* a sequential batch whose first URL ended with a Fatal error after its
\* attempts and whose second URL was then attempted and delivered
C19_Witness ==
    /\ mode = "url_file" /\ max_workers = 1 /\ pc = "done"
    /\ Len(posts) = 2
    /\ Len(failed_urls) = 1
    /\ failed_urls[1].url = posts[1]
    /\ failed_urls[1].error \in FatalErrors
    /\ attempts[2] = 1
    /\ Len(results) = 1
    /\ stats.errors = 1

IdleRest ==
    /\ resume = FALSE
    /\ username \in Targets
    /\ max_posts = {}
    /\ include_stories = FALSE
    /\ include_reels = FALSE
    /\ progress_file = [t \in Targets |-> Missing]
    /\ downloaded_posts = {}
    /\ run_no = 1
    /\ previous = None
    /\ disk = EmptyListing
    /\ stats_lock = 0
    /\ save_failed = FALSE
    /\ dirname_pattern = None
    /\ loaded = {}
    /\ resumed_from_previous = FALSE
    /\ stories_downloaded = 0
    /\ reels_downloaded = 0
    /\ reel_pos = 1
    /\ reel_log = <<>>
    /\ phase_failures = {}
    /\ target = <<>>
    /\ sched = "idle"
    /\ sweep_pos = 1
    /\ fut = <<>>
    /\ outcome = <<>>
    /\ attempts = <<>>
    /\ provider_outcome = <<>>
    /\ observed = <<>>
    /\ results = <<>>
    /\ caught = None
    /\ propagations = 0
    /\ tries = <<>>
    /\ failed_file = NotWritten

(***************************************************************************)
(* download_posts_from_urls: the whole-item retry of one URL, as a         *)
(* function of what the successive Post.from_shortcode calls do and of     *)
(* what the rest of download_post_from_url does once the post is fetched   *)
(***************************************************************************)
\* wait_time = (attempt + 1) * 2
BatchWaitTime(attempt) == (attempt + 1) * 2

\* the most calls of Post.from_shortcode the retries of one URL can make
MaxFetchCalls == BatchMaxRetries * DefaultMaxRetries

\* download_post_from_url for a well-formed URL: the post is fetched under
\* the connection retry, then rest is what the directory and _download_post
\* do.  [outcome, calls]
DownloadPostFromUrl(fetch, rest) ==
    LET r == RetryOnConnectionError(fetch, DefaultMaxRetries) IN
    [outcome |-> IF r.outcome = OK THEN rest ELSE r.outcome, calls |-> r.calls]

RECURSIVE DownloadWithRetryFrom(_, _, _, _, _)
\* for attempt in range(max_retries) from iteration `attempt` on, after
\* `calls` calls of Post.from_shortcode.  [outcome, attempts, calls, waits]
DownloadWithRetryFrom(fetch, rest, attempt, calls, waits) ==
    IF attempt >= BatchMaxRetries
    THEN [outcome |-> OtherException, attempts |-> attempt, calls |-> calls,
          waits |-> waits]
    ELSE LET d == DownloadPostFromUrl(
                     [k \in 1..DefaultMaxRetries |-> fetch[calls + k]],
                     rest[attempt + 1])
         IN  IF d.outcome = OK
             THEN [outcome |-> OK, attempts |-> attempt + 1,
                   calls |-> calls + d.calls, waits |-> waits]
             ELSE IF attempt < BatchMaxRetries - 1
             THEN DownloadWithRetryFrom(fetch, rest, attempt + 1, calls + d.calls,
                                        Append(waits, BatchWaitTime(attempt)))
             ELSE [outcome |-> d.outcome, attempts |-> attempt + 1,
                   calls |-> calls + d.calls, waits |-> waits]

DownloadWithRetry(fetch, rest) == DownloadWithRetryFrom(fetch, rest, 0, 0, <<>>)

\* what a call of Post.from_shortcode does in the harness
FetchOutcomes == {OK, ConnectionException, ProfileNotExistsException}
\* what the rest of download_post_from_url does in the harness
RestOutcomes == {OK, OtherOSError}

\* one URL of the batch: its attempts, then the bookkeeping of the loop
DownloadWithRetryCall ==
    /\ mode = "batch_retry"
    /\ pc = "call"
    /\ pc' = "called"
    /\ retried' = DownloadWithRetry(call_outcomes.fetch, call_outcomes.rest)
    /\ IF retried'.outcome = OK
       THEN UNCHANGED <<failed_urls, errors>>
       ELSE /\ failed_urls' =
                 Append(failed_urls, [url |-> posts[1], error |-> retried'.outcome])
            /\ errors' = errors + 1
    /\ UNCHANGED <<mode, max_workers, resume, username, max_posts,
                   include_stories, include_reels, run_no, previous,
                   max_retries, call_outcomes, main_vars, classify_vars,
                   tries, failed_file, disk, ledger_vars, dirname_pattern,
                   loaded, resumed_from_previous, stories_downloaded,
                   reels_downloaded, reel_pos, reel_log, phase_failures, raised,
                   stats, sched_vars>>

NextBatchRetry == DownloadWithRetryCall

InitBatchRetry ==
    /\ IdleRest
    /\ mode = "batch_retry"
    /\ pc = "call"
    /\ max_workers = ClampWorkers(1)
    /\ max_retries = BatchMaxRetries
    /\ posts \in {<<k>> : k \in UrlKeys}
    /\ call_outcomes \in [fetch : [1..MaxFetchCalls -> FetchOutcomes],
                          rest : [1..BatchMaxRetries -> RestOutcomes]]
    /\ retried = None
    /\ errors = 0
    /\ failed_urls = <<>>
    /\ raised = None
    /\ stats = NoStats
    /\ argv = NoArgv
    /\ exit_code = NoExit
    /\ error = NoError
    /\ context = ""
    /\ handled = None

SpecBatchRetry == InitBatchRetry /\ [][NextBatchRetry]_vars

(***************************************************************************)
(* C21, under SpecBatchRetry                                               *)
(***************************************************************************)
\* every call of Post.from_shortcode for the URL raised ConnectionException
FetchAlwaysFails ==
    /\ mode = "batch_retry"
    /\ \A k \in 1..MaxFetchCalls : call_outcomes.fetch[k] = ConnectionException

\* C21: a URL of a batch whose fetch always raises a connection failure is
\* given 3 whole-item attempts and then gets one failure record, and over
\* these attempts the provider is called for it no more than 3 times.
C21_FailingUrlThreeProviderCalls ==
    (FetchAlwaysFails /\ pc = "called") =>
        /\ retried.attempts = BatchMaxRetries
        /\ Len(failed_urls) = 1
        /\ retried.calls <= BatchMaxRetries

\* the always-failing URL after its last attempt: three whole-item attempts
\* with waits of 2 s and 4 s between them, one record, and nine calls of
\* Post.from_shortcode
C21_Witness ==
    /\ FetchAlwaysFails
    /\ pc = "called"
    /\ retried.attempts = BatchMaxRetries
    /\ retried.waits = <<2, 4>>
    /\ failed_urls = <<[url |-> posts[1], error |-> ConnectionException]>>
    /\ errors = 1
    /\ retried.calls = MaxFetchCalls

(***************************************************************************)
(* C22, under SpecMedia                                                    *)
(***************************************************************************)
\* the positions of download_user_media after the two optional sub-phases
AfterSubPhases == {"enumerate", "schedule", "finalize", "done"}

\* C22: every failed stories or reels sub-phase, whatever its error, adds
\* exactly one to the error count of the run and does not end the run: the
\* count after the sub-phases is the number of sub-phases that failed, and
\* it is the count the DownloadStats reports.
C22_SubPhaseFailureCountedOnce ==
    /\ pc \in AfterSubPhases => errors = Cardinality(phase_failures)
    /\ pc = "done" => stats.errors = Cardinality(phase_failures)

\* both sub-phases failed with errors their methods swallow, the posts were
\* downloaded all the same and the run reports no error
C22_Witness ==
    /\ pc = "done"
    /\ phase_failures = {"stories", "reels"}
    /\ stats.errors = 0
    /\ stats.total_posts > 0

(***************************************************************************)
(* C23, under SpecMedia                                                    *)
(***************************************************************************)
\* C23: a target-media run that an error ends raises that error to its
\* caller and builds no DownloadStats, not even a partial one: the error
\* that left the scheduler is the error raised, and a DownloadStats exists
\* only when the run reached its end with nothing raised and the scheduler,
\* if it ran, returned with every item consumed.
C23_FatalRaisesWithoutStats ==
    /\ pc = "raised" => stats = NoStats /\ raised # None
    /\ (pc = "raised" /\ sched = "raised") => raised = caught
    /\ stats # NoStats =>
          /\ pc = "done"
          /\ raised = None
          /\ sched \in {"idle", "returned"}
          /\ sched = "returned" => \A i \in Items : observed[i]

\* a Fatal error left the scheduler after another post had been downloaded,
\* and the run raised it without a DownloadStats
C23_Witness ==
    /\ pc = "raised"
    /\ sched = "raised"
    /\ raised \in FatalErrors
    /\ \E i \in Items : outcome[i].kind = "return" /\ provider_outcome[i] = OK
    /\ stats = NoStats

(***************************************************************************)
(* C24, under SpecMedia                                                    *)
(***************************************************************************)
\* the buckets of images, videos and skipped files a returned tuple adds to
SuccessBuckets(t) ==
    {b \in {"images", "videos", "skipped"} :
        \/ b = "images" /\ t.images > 0
        \/ b = "videos" /\ t.videos > 0
        \/ b = "skipped" /\ t.skipped > 0}

\* the outcomes the sums count in no bucket
InNoBucket == {j \in 1..Len(results) : SuccessBuckets(results[j]) = {}}

\* C24: every outcome the scheduler returned is counted in exactly one
\* bucket of the DownloadStats: it adds to one of images, videos and
\* skipped, or else it is an error and the error count has it (in a run
\* whose sub-phases did not fail, the error count is the number of such
\* outcomes).
C24_EveryOutcomeInOneBucket ==
    pc = "done" =>
        /\ \A j \in 1..Len(results) : Cardinality(SuccessBuckets(results[j])) <= 1
        /\ phase_failures = {} => stats.errors = Cardinality(InNoBucket)

\* a post whose download raised an error _download_post swallows: its
\* outcome is 0, 0, 0 and the run reports no error
C24_Witness ==
    /\ pc = "done"
    /\ phase_failures = {}
    /\ \E i \in Items :
          /\ provider_outcome[i] \in RecoverableSkipErrors
          /\ outcome[i] = Returns(Zero)
    /\ InNoBucket # {}
    /\ stats.errors = 0

(***************************************************************************)
(* main(): the command line is parsed, the downloader is constructed, the  *)
(* entry point of the chosen mode is called and the process exits.  What   *)
(* the entry point does is one of the outcomes it can end with.            *)
(***************************************************************************)
FileNotFoundError == "FileNotFoundError"
PermissionError == "PermissionError"
KeyboardInterrupt == "KeyboardInterrupt"
\* sys.exit(1) and parser.error: a SystemExit carrying the code
SystemExit1 == "SystemExit(1)"
SystemExit2 == "SystemExit(2)"

\* sys.exit(0), sys.exit(1), the code of parser.error, sys.exit(130)
ExitOk == 0
ExitError == 1
ExitUsage == 2
ExitInterrupted == 130

\* the values of --workers tried: any integer from below 1 to above the limit
WorkersArgs == (0 - MaxRequestedWorkers)..(MaxWorkersLimit + MaxRequestedWorkers)

\* a command line: which of the options are given, and --workers
CommandLines ==
    [username : BOOLEAN, url : BOOLEAN, url_file : BOOLEAN,
     max_posts : BOOLEAN, include_stories : BOOLEAN, include_reels : BOOLEAN,
     no_resume : BOOLEAN, workers : WorkersArgs]

BoolInt(b) == IF b THEN 1 ELSE 0

\* parse_arguments: the checks after parser.parse_args()
ArgumentsAccepted(a) ==
    LET mode_count == BoolInt(a.username) + BoolInt(a.url) + BoolInt(a.url_file) IN
    /\ mode_count = 1
    /\ ~((a.include_stories \/ a.include_reels) /\ ~a.username)
    /\ ~(a.max_posts /\ ~a.username)

\* if args.url: ... elif args.url_file: ... else: ...
DispatchMode(a) ==
    IF a.url THEN "url" ELSE IF a.url_file THEN "url_file" ELSE "media"

\* what the calls of a mode can end with: a DownloadStats (OK), an error
\* raised to main, the sys.exit(1) of an empty URL list, or an interrupt
RunOutcomes(m, workers) ==
    LET \* ThreadPoolExecutor(max_workers=...) raises ValueError below 1
        pool == IF workers < 1 THEN {ValueError} ELSE {}
    IN  IF m = "url"
        THEN {OK, KeyboardInterrupt, ValueError, PermissionError} \cup ErrorKinds
        ELSE IF m = "url_file"
        THEN (IF workers < 1 THEN {} ELSE {OK})
               \cup {KeyboardInterrupt, FileNotFoundError, ValueError,
                     OtherException, SystemExit1} \cup pool
        ELSE {OK, KeyboardInterrupt, PermissionError} \cup ErrorKinds \cup pool

\* the DownloadStats of a run that returned
MainStats(m, who, failed) ==
    [username |-> IF m = "url_file" THEN "batch_download" ELSE who,
     total_posts |-> 1,
     downloaded_images |-> 1 - failed,
     downloaded_videos |-> 0,
     skipped_files |-> 0,
     errors |-> failed,
     stories_downloaded |-> 0,
     reels_downloaded |-> 0,
     resumed_from_previous |-> FALSE]

\* an except chain that tells every error the same way
ExitCodeAlwaysError(e) ==
    IF e = SystemExit2 THEN ExitUsage ELSE ExitError

\* the except clauses of main in their order; a SystemExit is no Exception
\* and leaves with its own code
ExitCode(e) ==
    IF e = SystemExit1 THEN ExitError
    ELSE IF e = SystemExit2 THEN ExitUsage
    ELSE IF e = ValueError THEN ExitError
    ELSE IF e = FileNotFoundError THEN ExitError
    ELSE IF e = ProfileNotExistsException THEN ExitError
    ELSE IF e = PrivateProfileNotFollowedException THEN ExitError
    ELSE IF e = ConnectionException THEN ExitError
    ELSE IF e = PermissionError THEN ExitError
    ELSE IF e \in OSErrors THEN ExitError
    ELSE IF e = KeyboardInterrupt THEN ExitInterrupted
    ELSE ExitError

\* the variables main and the constructor leave alone
main_frame ==
    <<username, max_posts, include_stories, include_reels, run_no, previous,
      retry_vars, classify_vars, disk, ledger_vars, dirname_pattern, loaded,
      resumed_from_previous, errors, stories_downloaded, reels_downloaded,
      reel_pos, reel_log, phase_failures, sched_vars, url_vars>>

\* args = parse_arguments()
ParseArguments ==
    /\ pc = "main"
    /\ IF ArgumentsAccepted(argv)
       THEN pc' = "parsed" /\ UNCHANGED raised
       ELSE pc' = "except" /\ raised' = SystemExit2
    /\ UNCHANGED <<mode, max_workers, resume, stats, argv, exit_code, main_frame>>

\* downloader = IGDownloader(output_dir, max_workers=args.workers,
\*                           resume=not args.no_resume)
Construct ==
    /\ pc = "parsed"
    /\ pc' = "constructed"
    /\ max_workers' = ClampWorkers(argv.workers)
    /\ resume' = ~argv.no_resume
    /\ UNCHANGED <<mode, raised, stats, argv, exit_code, main_frame>>

\* the branch of the mode: the call returns its DownloadStats or raises
Run ==
    /\ pc = "constructed"
    /\ mode' = DispatchMode(argv)
    /\ \E o \in RunOutcomes(mode', max_workers), failed \in {0, 1} :
         IF o = OK
         THEN /\ mode' = "url" => failed = 0
              /\ pc' = "ran"
              /\ stats' = MainStats(mode', username, failed)
              /\ UNCHANGED raised
         ELSE /\ failed = 0
              /\ pc' = "except"
              /\ raised' = o
              /\ UNCHANGED stats
    /\ UNCHANGED <<max_workers, resume, argv, exit_code, main_frame>>

\* display_summary(stats); sys.exit(0)
Summary ==
    /\ pc = "ran"
    /\ pc' = "exited"
    /\ exit_code' = ExitOk
    /\ UNCHANGED <<mode, max_workers, resume, raised, stats, argv, main_frame>>

\* the except clause that matches prints its message and exits
Except ==
    /\ pc = "except"
    /\ pc' = "exited"
    /\ exit_code' = ExitCode(raised)
    /\ UNCHANGED <<mode, max_workers, resume, raised, stats, argv, main_frame>>

NextMain ==
    \/ ParseArguments
    \/ Construct
    \/ Run
    \/ Summary
    \/ Except

InitMain ==
    /\ IdleRest
    /\ mode = "main"
    /\ pc = "main"
    /\ argv \in CommandLines
    /\ exit_code = NoExit
    /\ max_workers = ClampWorkers(1)
    /\ max_retries = DefaultMaxRetries
    /\ posts = <<>>
    /\ call_outcomes = <<>>
    /\ retried = None
    /\ errors = 0
    /\ failed_urls = <<>>
    /\ raised = None
    /\ stats = NoStats
    /\ error = NoError
    /\ context = ""
    /\ handled = None

SpecMain == InitMain /\ [][NextMain]_vars

(***************************************************************************)
(* C25 and C27, under SpecMain                                             *)
(***************************************************************************)
\* main has constructed its IGDownloader
Constructed ==
    \/ pc \in {"constructed", "ran"}
    \/ pc \in {"except", "exited"} /\ raised # SystemExit2

\* C25: whatever integer --workers asks for, the downloader main constructs
\* has a worker count within 1..8, so no run is started with a pool size
\* outside that range.
C25_WorkersWithinOneToEight ==
    Constructed => max_workers \in 1..MaxWorkersLimit

\* --workers 0: the constructor keeps 0 and the batch fails when it creates
\* its pool
C25_Witness ==
    /\ pc = "except"
    /\ argv.workers = 0
    /\ max_workers = 0
    /\ mode = "url_file"
    /\ raised = ValueError

\* the conditions main reports as errors
HandledFatal ==
    {ValueError, FileNotFoundError, ProfileNotExistsException,
     PrivateProfileNotFollowedException, ConnectionException, PermissionError,
     ENOSPC, EACCES, OtherOSError, OtherException, SystemExit1}

\* C27: the process exits with 0 exactly when the run returned and its
\* summary was shown, with 1 when the run ended in one of the handled
\* conditions (malformed input, missing file, target not found or private,
\* connection failure, permission denied, filesystem error, unexpected
\* error, empty URL list) and with 130 on a user interrupt; the only other
\* code is that of a command line argparse rejects before any run starts.
C27_ExitCodes ==
    pc = "exited" =>
        /\ (exit_code = ExitOk) <=> (raised = None /\ stats # NoStats)
        /\ raised \in HandledFatal => exit_code = ExitError
        /\ raised = KeyboardInterrupt => exit_code = ExitInterrupted
        /\ exit_code \notin {ExitOk, ExitError, ExitInterrupted} =>
              raised = SystemExit2 /\ ~ArgumentsAccepted(argv)

\* a target-media run interrupted by the user has exited with 130
C27_Witness ==
    /\ pc = "exited"
    /\ mode = "media"
    /\ raised = KeyboardInterrupt
    /\ exit_code = ExitInterrupted

(***************************************************************************)
(* _handle_download_error called on its own.  An error is its class and,   *)
(* for an OSError, its errno (0 when the error carries none).              *)
(***************************************************************************)
\* the largest errno tried
MaxErrno == 30
\* errno.EPERM, errno.ENOENT, errno.EACCES, errno.ENOSPC
ErrnoEPERM == 1
ErrnoENOENT == 2
ErrnoEACCES == 13
ErrnoENOSPC == 28
NoErrno == 0

Error(class, errno) == [class |-> class, errno |-> errno]

\* the OSError classes tried and the errnos an instance of each can carry
OSErrorClasses == {"OSError", "PermissionError", "FileNotFoundError"}
ErrnosOf(class) ==
    IF class = "PermissionError" THEN {NoErrno, ErrnoEPERM, ErrnoEACCES}
    ELSE IF class = "FileNotFoundError" THEN {NoErrno, ErrnoENOENT}
    ELSE 0..MaxErrno

\* the errors tried: the three instaloader classes, OSErrors, and others
ErrorValues ==
    {Error(c, NoErrno) :
        c \in {ProfileNotExistsException, ConnectionException,
               PrivateProfileNotFollowedException, ValueError, "KeyError",
               OtherException}}
      \cup UNION {{Error(c, n) : n \in ErrnosOf(c)} : c \in OSErrorClasses}

\* isinstance(error, OSError)
IsOSError(e) == e.class \in OSErrorClasses

\* the contexts tried: none, a shortcode, a username
Contexts == {"", "post", "user"}

\* what a call did: the log record, and whether the error was raised again
Handled(level, text, ctx, raise) ==
    [level |-> level, text |-> text, context |-> ctx, raised |-> raise]

\* the if / elif chain of _handle_download_error
HandleDownloadError(e, ctx) ==
    IF e.class = ProfileNotExistsException
    THEN Handled("error", "profile_not_exists", ctx, TRUE)
    ELSE IF e.class = ConnectionException
    THEN Handled("error", "connection_failed", ctx, TRUE)
    ELSE IF e.class = PrivateProfileNotFollowedException
    THEN Handled("error", "private_profile", ctx, TRUE)
    ELSE IF IsOSError(e)
    THEN IF e.errno = ErrnoENOSPC
         THEN Handled("error", "no_space", ctx, TRUE)
         ELSE IF e.errno = ErrnoEACCES
         THEN Handled("error", "permission_denied", ctx, TRUE)
         ELSE Handled("warning", "filesystem_error", ctx, FALSE)
    ELSE Handled("warning", "unexpected_error", ctx, FALSE)

\* self._handle_download_error(error, context)
HandleCall ==
    /\ mode = "classify"
    /\ pc = "call"
    /\ pc' = "called"
    /\ handled' = HandleDownloadError(error, context)
    /\ raised' = IF handled'.raised THEN error.class ELSE None
    /\ UNCHANGED <<mode, max_workers, resume, stats, main_vars, error, context,
                   username, max_posts, include_stories, include_reels, run_no,
                   previous, retry_vars, disk, ledger_vars, dirname_pattern,
                   loaded, resumed_from_previous, errors, stories_downloaded,
                   reels_downloaded, reel_pos, reel_log, phase_failures,
                   sched_vars, url_vars>>

NextClassify == HandleCall

InitClassify ==
    /\ IdleRest
    /\ mode = "classify"
    /\ pc = "call"
    /\ error \in ErrorValues
    /\ context \in Contexts
    /\ handled = None
    /\ max_workers = ClampWorkers(1)
    /\ max_retries = DefaultMaxRetries
    /\ posts = <<>>
    /\ call_outcomes = <<>>
    /\ retried = None
    /\ errors = 0
    /\ failed_urls = <<>>
    /\ raised = None
    /\ stats = NoStats
    /\ argv = NoArgv
    /\ exit_code = NoExit

SpecClassify == InitClassify /\ [][NextClassify]_vars

(***************************************************************************)
(* C26, under SpecClassify                                                 *)
(***************************************************************************)
\* the conditions the claim names, told from an error value
TargetNotFound(e) == e.class = ProfileNotExistsException
TargetPrivate(e) == e.class = PrivateProfileNotFollowedException
ConnectionFailure(e) == e.class = ConnectionException
OutOfSpace(e) == IsOSError(e) /\ e.errno = ErrnoENOSPC
PermissionDenied(e) ==
    \/ IsOSError(e) /\ e.errno = ErrnoEACCES
    \/ e.class = "PermissionError"

\* C26: the classifier handles every error: target-not-found,
\* target-private, out-of-space and permission-denied errors are re-raised
\* (Fatal), a connection failure is re-raised for the retry of the caller
\* (Retryable), and every other error, filesystem or not, is logged as a
\* warning and not raised (RecoverableSkip).
C26_ClassifierTiers ==
    pc = "called" =>
        LET escalated ==
              \/ TargetNotFound(error) \/ TargetPrivate(error)
              \/ OutOfSpace(error) \/ PermissionDenied(error)
              \/ ConnectionFailure(error)
        IN  /\ handled.raised = escalated
            /\ handled.level = (IF escalated THEN "error" ELSE "warning")
            /\ handled.raised => raised = error.class

\* the PermissionError _create_output_directory raises carries no errno:
\* the classifier logs it as a filesystem warning and does not raise it
C26_Witness ==
    /\ pc = "called"
    /\ error = Error("PermissionError", NoErrno)
    /\ handled = Handled("warning", "filesystem_error", context, FALSE)
    /\ raised = None

(***************************************************************************)
(* C28  One outcome per item; input order on the sequential path           *)
(***************************************************************************)
\* what the scheduler records for item i once its outcome is known
Recorded(i) ==
    IF outcome[i].kind = "return" THEN outcome[i].tuple ELSE Zero

\* C28: when the scheduler returns its result list, the list has one entry
\* per input item at any worker count.  With one worker the entries stand in
\* input order (entry j is the outcome of item j), at most one item is being
\* processed at any moment, and an item is started only after every earlier
\* item has finished and has been recorded.
C28_OneOutcomePerItemInOrder ==
    /\ sched = "returned" => Len(results) = Len(posts)
    /\ (mode = "sched" /\ max_workers = 1) =>
         /\ Len(results) <= Len(posts)
         /\ \A j \in 1..Len(results) : results[j] = Recorded(j)
         /\ Cardinality({i \in Items : fut[i] \in Running}) <= 1
         /\ \A i \in Items :
              fut[i] # "pending" =>
                \A j \in 1..(i - 1) : fut[j] = "finished" /\ observed[j]

\* a sequential run over at least two items whose outcomes differ has returned
C28_Witness ==
    /\ mode = "sched"
    /\ max_workers = 1
    /\ sched = "returned"
    /\ Len(posts) >= 2
    /\ results[1] # results[2]

(***************************************************************************)
(* C29  The pool is joined before a fatal error leaves the scheduler       *)
(***************************************************************************)
\* C29: with more than one worker, when a fatal error has left the
\* scheduler, every item is finished or cancelled (no worker is running and
\* none can start), the ledger lock is free, and from then on no step
\* changes the ledger, the progress file, the outcomes or the result list.
C29_JoinedBeforeErrorPropagates ==
    /\ [](mode = "sched" /\ max_workers > 1 /\ sched = "raised" =>
            /\ \A i \in Items : fut[i] \in {"finished", "cancelled"}
            /\ stats_lock = 0)
    /\ [][mode = "sched" /\ max_workers > 1 /\ sched = "raised" =>
            UNCHANGED <<downloaded_posts, progress_file, outcome, results, fut>>]_vars

\* a fatal error has left the pool after a second worker, still running when
\* the error was seen, added its item to the ledger
C29_Witness ==
    /\ mode = "sched"
    /\ max_workers > 1
    /\ sched = "raised"
    /\ \E i \in Items :
         /\ outcome[i].kind = "raise"
         /\ observed[i]
         /\ \E j \in Items :
              /\ j # i
              /\ ~observed[j]
              /\ fut[j] = "finished"
              /\ posts[j] \in downloaded_posts
              /\ posts[j] \notin loaded

(***************************************************************************)
(* C30  The phases of download_user_media, under SpecMedia                 *)
(***************************************************************************)
\* the steps from one phase to the next that the order of the statements
\* of download_user_media allows; any phase may also end the run by raising
PhaseOrder ==
    {<<"create_dir", "load">>, <<"load", "resolve">>, <<"resolve", "stories">>,
     <<"stories", "reels">>, <<"reels", "reels_loop">>, <<"reels", "enumerate">>,
     <<"reels_loop", "enumerate">>, <<"enumerate", "schedule">>,
     <<"enumerate", "finalize">>, <<"schedule", "done">>, <<"finalize", "done">>}
BeforeLoad == {"create_dir", "load"}
BeforeStories == BeforeLoad \cup {"resolve", "stories"}
BeforeReels == BeforeStories \cup {"reels"}
BeforeSchedule == BeforeReels \cup {"reels_loop", "enumerate", "finalize"}

\* C30: a target-media run goes through its phases in one order: ledger
\* load, target resolution, the stories sub-phase, the reels sub-phase, the
\* enumeration of the posts, the scheduler, the DownloadStats.  The ledger is
\* loaded only by the load phase, stories are counted only by the stories
\* sub-phase and reels are handled only by the reels sub-phase; a sub-phase
\* that is not enabled leaves no trace; no post is handed to _download_post
\* before both sub-phases have ended; and the DownloadStats is built only
\* when the scheduler has returned with every item's outcome consumed and no
\* item being processed (or when there was no post to schedule).
C30_PhaseOrder ==
    /\ [](mode = "media" =>
            /\ pc \in BeforeLoad => loaded = {} /\ ~resumed_from_previous
            /\ pc \in BeforeStories =>
                 stories_downloaded = 0 /\ "stories" \notin phase_failures
            /\ pc \in BeforeReels =>
                 /\ reel_log = <<>> /\ reel_pos = 1 /\ reels_downloaded = 0
                 /\ "reels" \notin phase_failures
            /\ pc \in BeforeSchedule =>
                 sched = "idle" /\ posts = <<>> /\ results = <<>>
            /\ ~include_stories =>
                 stories_downloaded = 0 /\ "stories" \notin phase_failures
            /\ ~include_reels =>
                 /\ reel_log = <<>> /\ reels_downloaded = 0
                 /\ "reels" \notin phase_failures
            /\ stats # NoStats =>
                 /\ pc = "done"
                 /\ sched \in {"idle", "returned"}
                 /\ \A i \in Items : fut[i] = "finished" /\ observed[i]
                 /\ Len(results) = Len(posts))
    /\ [][mode = "media" =>
            /\ pc' # pc => (pc' = "raised" \/ <<pc, pc'>> \in PhaseOrder)
            /\ loaded' # loaded => pc = "load"
            /\ stories_downloaded' # stories_downloaded => pc = "stories"
            /\ (reel_log' # reel_log \/ reels_downloaded' # reels_downloaded)
                  => pc = "reels_loop"
            /\ (fut' # fut \/ results' # results)
                  => (pc = "enumerate" \/ pc = "schedule")
            /\ stats' # stats =>
                  (pc = "finalize" \/ (pc = "schedule" /\ sched = "returned"))]_vars

\* a run with both sub-phases enabled went through every phase: it resumed
\* from a ledger, counted a story and a reel, scheduled posts on a pool and
\* built its DownloadStats
C30_Witness ==
    /\ mode = "media"
    /\ pc = "done"
    /\ include_stories /\ include_reels /\ resume
    /\ loaded # {}
    /\ stories_downloaded > 0
    /\ reels_downloaded > 0
    /\ max_workers > 1
    /\ sched = "returned"
    /\ Len(posts) >= 2
    /\ stats # NoStats
    /\ stats.downloaded_images + stats.downloaded_videos > 0

(***************************************************************************)
(* C31  The posts handed to the scheduler, under SpecMedia                 *)
(***************************************************************************)
\* the first items of s, as many as limit allows
FirstItems(s, limit) ==
    IF limit = {} THEN s
    ELSE LET n == CHOOSE m \in limit : TRUE IN
         SubSeq(s, 1, IF n < Len(s) THEN n ELSE Len(s))
\* the enumeration of target t without its reels
WithoutReels(t) == SelectSeq(GetPosts(t), LAMBDA k : ~IsReel(k))
Enumerated == mode = "media" /\ (sched # "idle" \/ pc \in {"finalize", "done"})

PostsDownloadedOk == {posts[i] : i \in {j \in Items : provider_outcome[j] = OK}}
\* keys of the reels whose download_post call returned
ReelsDownloadedOk ==
    {reel_log[j].key : j \in {n \in 1..Len(reel_log) : reel_log[n].what = "downloaded"}}
\* items that ended without a successful download: the call raised, or the
\* glob found files and the call was never made
FailedItem(i) ==
    provider_outcome[i] \notin {OK, None}
SkippedForExisting(i) ==
    /\ fut[i] = "finished" /\ attempts[i] = 0
    /\ ~(resume /\ posts[i] \in loaded)
    /\ outcome[i].kind = "return" /\ outcome[i].tuple.skipped > 0

\* C32: in every state of a target-media run the in-memory set
\* downloaded_posts holds only keys that the load at the start of the run
\* returned and keys of posts or reels whose download_post call returned
\* without raising; the key of an item whose call raised, or that was skipped
\* because its files exist, is in the set only if it was loaded or another
\* successful download added it.
C32_LedgerOnlyAfterSuccess ==
    mode = "media" =>
      /\ downloaded_posts \subseteq (loaded \cup PostsDownloadedOk \cup ReelsDownloadedOk)
      /\ \A i \in Items :
           (FailedItem(i) \/ SkippedForExisting(i)) =>
             (posts[i] \in downloaded_posts => posts[i] \in loaded)

\* one run downloaded a post and added its key, while a post that failed and
\* a post skipped for existing files stayed out of the set
C32_Witness ==
    /\ mode = "media" /\ resume
    /\ sched = "returned"
    /\ \E i \in Items : provider_outcome[i] = OK /\ posts[i] \in downloaded_posts \ loaded
    /\ \E i \in Items : FailedItem(i) /\ posts[i] \notin downloaded_posts
    /\ \E i \in Items : SkippedForExisting(i) /\ posts[i] \notin downloaded_posts

(***************************************************************************)
(* C33  A failed save of the ledger is swallowed, under SpecSched          *)
(***************************************************************************)
\* the step in which item i leaves _save_progress with the file not holding
\* the set that was to be saved
FailedSave(i) ==
    /\ fut[i] = "save"
    /\ fut'[i] = "finished"
    /\ progress_file'[target[i]] # WrittenFile(downloaded_posts)

\* C33: when the _save_progress call that follows a successful download
\* fails, the item still returns its counts of downloaded files, its key
\* is in downloaded_posts and stays there, and the scheduler is not
\* disturbed.  An error that the scheduler sees or raises is always one
\* that a provider call of some item raised, never one of a save; every
\* item whose download returned is reported with its counts whether or not
\* its save worked.
C33_SaveFailureSwallowed ==
    /\ [][mode = "sched" =>
            \A i \in Items :
              FailedSave(i) =>
                /\ outcome'[i] = Returns(CountDownloaded(posts[i]))
                /\ posts[i] \in downloaded_posts'
                /\ sched' = sched /\ caught' = caught /\ results' = results]_vars
    /\ [][mode = "sched" => downloaded_posts \subseteq downloaded_posts']_vars
    /\ [](mode = "sched" =>
            /\ \A i \in Items :
                 (fut[i] = "finished" /\ provider_outcome[i] = OK) =>
                   /\ outcome[i] = Returns(CountDownloaded(posts[i]))
                   /\ resume => posts[i] \in downloaded_posts
            /\ \A i \in Items :
                 outcome[i].kind = "raise" => provider_outcome[i] = outcome[i].exc
            /\ caught # None =>
                 \E i \in Items : provider_outcome[i] = caught)

\* a sequential pass over at least two posts returned every post's counts
\* although a save failed and the file does not hold the set
C33_Witness ==
    /\ mode = "sched" /\ resume
    /\ max_workers = 1
    /\ sched = "returned"
    /\ save_failed
    /\ Len(posts) >= 2
    /\ progress_file[username] # WrittenFile(downloaded_posts)
    /\ \A i \in Items :
         /\ provider_outcome[i] = OK
         /\ results[i] = CountDownloaded(posts[i])
         /\ posts[i] \in downloaded_posts

(***************************************************************************)
(* C34  A run without resume leaves the ledger alone, under SpecMedia      *)
(***************************************************************************)
\* C34: in a target-media run with resume off, the ledger file is never
\* read (nothing is loaded) and never written, the in-memory set stays as
\* the constructor left it, the lock is never taken, resumed_from_previous
\* is false in the run and in its DownloadStats, and no post or reel is
\* skipped for being in the ledger: every post that got past its check had
\* the glob for its files evaluated, and every reel the reels sub-phase came
\* to was skipped for existing files, downloaded or failed.
C34_NoResumeNoLedger ==
    /\ [][(mode = "media" /\ ~resume) =>
             UNCHANGED <<downloaded_posts, progress_file, loaded, stats_lock,
                         save_failed>>]_vars
    /\ [](mode = "media" /\ ~resume =>
            /\ downloaded_posts = {} /\ loaded = {}
            /\ stats_lock = 0 /\ ~save_failed
            /\ ~resumed_from_previous
            /\ stats # NoStats => ~stats.resumed_from_previous
            /\ \A i \in Items :
                 fut[i] \in {"download", "finished"} =>
                   /\ disk["posts"][posts[i]] # Unlisted
                   /\ fut[i] = "download" \/ attempts[i] = 1
                        \/ disk["posts"][posts[i]] > 0
            /\ \A j \in 1..Len(reel_log) : reel_log[j].what # "skip_ledger")

\* a run without resume downloaded a post whose key the ledger file of an
\* earlier run holds, and left the file as it was
C34_Witness ==
    /\ mode = "media" /\ ~resume
    /\ pc = "done"
    /\ progress_file[username] = WrittenFile({1})
    /\ \E i \in Items : posts[i] = 1 /\ provider_outcome[i] = OK
    /\ stats.downloaded_images > 0

(***************************************************************************)
(* C35  The four sites that classify an error, under SpecClassify          *)
(***************************************************************************)
\* the error e as the except clauses of _download_post and of
\* _download_posts_parallel tell it apart: by class, and an OSError by errno
ErrorKind(e) ==
    IF e.class \in {ConnectionException, ProfileNotExistsException,
                    PrivateProfileNotFollowedException}
    THEN e.class
    ELSE IF IsOSError(e)
    THEN IF e.errno = ErrnoENOSPC THEN ENOSPC
         ELSE IF e.errno = ErrnoEACCES THEN EACCES
         ELSE OtherOSError
    ELSE OtherException

\* C35: for every error value the four sites decide alike between raising
\* the error (aborting the pass) and recording a zero outcome and going on:
\* _handle_download_error raises it exactly when the except clauses of
\* _download_post raise it, exactly when the sequential loop of
\* _download_posts_parallel raises it, exactly when its as_completed loop
\* cancels and raises.
C35_SameDecisionAtEverySite ==
    (mode = "classify" /\ pc = "called") =>
      LET k == ErrorKind(error) IN
        /\ handled.raised = (DownloadPostExcept(k).kind = "raise")
        /\ handled.raised = (SeqExcept(k) = "raise")
        /\ handled.raised = (PoolExcept(k) = "cancel_raise")

\* an OSError that is neither out-of-space nor permission-denied: the
\* classifier, _download_post and the pool go on, the sequential loop raises
C35_Witness ==
    /\ mode = "classify" /\ pc = "called"
    /\ error = Error("OSError", ErrnoENOENT)
    /\ ~handled.raised
    /\ DownloadPostExcept(ErrorKind(error)) = Returns(Zero)
    /\ PoolExcept(ErrorKind(error)) = "append_zero"
    /\ SeqExcept(ErrorKind(error)) = "raise"

(***************************************************************************)
(* C36  One provider download per key, under SpecUrl                       *)
(***************************************************************************)
\* entries i and j of the input list name the same post
SameKey(i, j) == i # j /\ posts[i] = posts[j] /\ posts[i] # InvalidUrl

\* C36: with resume on, loader.download_post is called at most once per key
\* in a run, at any worker count, also when the input list names a key
\* twice: of two list entries with the same key at most one gets as far as
\* a download_post call that returns, because the other finds the key in
\* downloaded_posts.  (The calls counted are those that returned, so that a
\* repeat after a failed call is not held against the statement.)
C36_OneDownloadPerKey ==
    (mode = "url_file" /\ resume) =>
      \A i \in Items : \A j \in Items :
        SameKey(i, j) => ~(provider_outcome[i] = OK /\ provider_outcome[j] = OK)

\* two pool workers were given the same key: both passed the ledger test
\* before either added the key, both called download_post once and both
\* calls returned
C36_Witness ==
    /\ mode = "url_file" /\ resume
    /\ max_workers > 1
    /\ \E i \in Items : \E j \in Items :
         /\ SameKey(i, j)
         /\ provider_outcome[i] = OK /\ provider_outcome[j] = OK
         /\ attempts[i] = 1 /\ attempts[j] = 1
         /\ tries[i] = 0 /\ tries[j] = 0
         /\ fut[i] = "finished" /\ fut[j] = "finished"
         /\ outcome[i] = Returns(CountDownloaded(posts[i]))
         /\ outcome[j] = Returns(CountDownloaded(posts[j]))
         /\ posts[i] \in downloaded_posts

(***************************************************************************)
(* C37  The destination of a download in a batch, under SpecUrl            *)
(***************************************************************************)
\* the step in which item i's loader.download_post call is made
DownloadCall(i) == fut[i] = "download" /\ fut'[i] # "download"

\* C37: in a batch of URLs on a pool, the posts of different owners are
\* each saved under their own owner's directory: when a worker's
\* loader.download_post call is made, loader.dirname_pattern is the posts
\* directory of that worker's own item, as the worker set it.
C37_DestinationIsOwn ==
    [][(mode = "url_file" /\ max_workers > 1) =>
          \A i \in Items :
            DownloadCall(i) => dirname_pattern = PostsDir(target[i])]_vars

\* two workers hold posts of different owners and both are about to call
\* download_post: the shared dirname_pattern is the directory of one owner
\* only, the other worker's post will be saved there
C37_Witness ==
    /\ mode = "url_file" /\ max_workers > 1
    /\ \E i \in Items : \E j \in Items :
         /\ fut[i] = "download" /\ fut[j] = "download"
         /\ target[i] # target[j]
         /\ dirname_pattern = PostsDir(target[j])
         /\ dirname_pattern # PostsDir(target[i])

(***************************************************************************)
(* C38  Termination of a scheduler pass and of a batch of URLs.  The       *)
(* specification runs either of the two from its call on; the threads of   *)
(* the interpreter are scheduled so that a thread that can take a step     *)
(* takes one (weak fairness of the next-step relation), and every call of  *)
(* the provider returns or raises in one step.                             *)
(***************************************************************************)
NextTerm == NextSched \/ NextUrl
\* a pass of the scheduler with one or several workers, or a download by
\* URL (one URL, or a batch from a file) with resume on (the runs that take
\* the lock) and no ledger file yet
InitTerm ==
    \/ InitSched /\ max_workers <= MaxRequestedWorkers
    \/ /\ InitUrl
       /\ resume
       /\ \A t \in Targets : progress_file[t] = Missing
SpecTerm == InitTerm /\ [][NextTerm]_vars /\ WF_vars(NextTerm)

\* the pass or the batch has returned or raised
Terminated ==
    \/ mode = "sched" /\ sched \in {"returned", "raised"}
    \/ mode \in {"url", "url_file"} /\ pc \in {"done", "raised"}

\* C38: every scheduler pass and every batch of URLs ends, by returning or
\* by raising, at any worker count.  On the way the lock is held only by an
\* item that is between its add and the end of its save (it is never asked
\* for by the thread that holds it), an item of a pass is given to the
\* provider at most once, and a URL makes at most BatchMaxRetries attempts.
C38_Terminates ==
    /\ [](/\ stats_lock # 0 => (stats_lock \in Items /\ fut[stats_lock] = "save")
          /\ \A i \in Items : fut[i] = "lock" => stats_lock # i
          /\ mode = "sched" => \A i \in Items : attempts[i] <= 1
          /\ mode \in {"url", "url_file"} =>
               \A i \in Items : /\ tries[i] <= BatchMaxRetries - 1
                                /\ attempts[i] <= BatchMaxRetries)
    /\ <>Terminated

\* a pool of two workers ended a batch in which a URL used all its attempts
C38_Witness ==
    /\ mode = "url_file" /\ max_workers > 1 /\ resume
    /\ pc = "done"
    /\ Len(posts) >= 2
    /\ \E i \in Items : attempts[i] = BatchMaxRetries
    /\ \E i \in Items : posts[i] \in downloaded_posts

(***************************************************************************)
(* C39  A URL counted as succeeded was downloaded or skipped, under SpecUrl*)
(***************************************************************************)
\* the step in which the batch does its bookkeeping for URL i
Collected(i) == fut[i] = "finished" /\ fut'[i] = "done"
\* the last loader.download_post call for URL i raised
DownloadRaised(i) == provider_outcome[i] \notin {OK, None}

\* C39: in a batch of URLs, a URL whose download_post call raised and that
\* did not succeed on a later attempt gets a failure record and is counted
\* in errors when the batch does its bookkeeping for it; only a URL whose
\* post was downloaded, or skipped as already present, is counted as
\* succeeded.
C39_RaisedMeansFailureRecord ==
    [][mode = "url_file" =>
         \A i \in Items :
           (Collected(i) /\ DownloadRaised(i)) =>
             /\ Len(failed_urls') = Len(failed_urls) + 1
             /\ failed_urls'[Len(failed_urls')].url = posts[i]
             /\ errors' = errors + 1
             /\ results' = results]_vars

\* a batch of one URL ended with no failure record and errors = 0 although
\* the only download_post call for the URL raised: nothing was downloaded,
\* nothing skipped, and the key is not in the ledger
C39_Witness ==
    /\ mode = "url_file" /\ resume
    /\ pc = "done"
    /\ Len(posts) = 1
    /\ attempts[1] = 1
    /\ posts[1] \notin downloaded_posts
    /\ failed_urls = <<>>
    /\ failed_file = NotWritten
    /\ stats.errors = 0
    /\ stats.downloaded_images + stats.downloaded_videos + stats.skipped_files = 0

(***************************************************************************)
(* C40  Every enumerated item is processed by some phase, under SpecMedia  *)
(***************************************************************************)
\* keys the scheduler's items got to: _download_post ran for them
KeysOfPosts == {posts[i] : i \in {j \in Items : fut[j] = "finished"}}
\* keys the reels sub-phase got to: skipped, downloaded or failed
KeysOfReels == {reel_log[j].key : j \in 1..Len(reel_log)}

\* C40: when a target-media run without max_posts returns its
\* DownloadStats, every post of the target's enumeration was handled by a
\* phase: _download_post ran for it (download attempted, or skipped as
\* already there), or the reels sub-phase came to it.  No reel is left out
\* because the reels sub-phase ended early.
C40_EveryItemProcessed ==
    (mode = "media" /\ pc = "done" /\ max_posts = {}) =>
      \A k \in Range(GetPosts(username)) : k \in KeysOfPosts \cup KeysOfReels

\* the reels sub-phase failed before its loop, the posts were scheduled
\* without the reels and the run returned: a reel of the target was handled
\* by no phase
C40_Witness ==
    /\ mode = "media" /\ pc = "done" /\ max_posts = {}
    /\ include_reels
    /\ "reels" \in phase_failures
    /\ reel_log = <<>>
    /\ sched = "returned"
    /\ stats # NoStats
    /\ \E k \in Range(GetPosts(username)) :
         IsReel(k) /\ k \notin KeysOfPosts \cup KeysOfReels

====
